---- MODULE Spec2Model ----
(***************************************************************************)
(* State-machine model of the AMPv3 decision pipeline:                     *)
(*   - the rolling derivatives engine (app/data/derivatives_fetcher.py,    *)
(*     app/data/cache.py),                                                 *)
(*   - the Gate 2 derivatives-regime classifier                            *)
(*     (app/gates/gate2_derivatives.py, app/gates/output.py),              *)
(*   - the orchestrator loop (app/main.py, app/exchange/router.py).        *)
(*                                                                         *)
(* Conventions.                                                            *)
(*   Optional[float] is a sequence: <<>> is None, <<x>> is the number x.   *)
(*   Floats are scaled integers: ratio_long_pct in tenths of a percent     *)
(*   (675 = 67.5), funding in units of 1e-5 (20 = 0.00020), z-scores in    *)
(*   tenths (30 = 3.0).                                                    *)
(*   A Python str is a sequence of tokens; an f-string is concatenation.   *)
(*   A dict is a function whose DOMAIN is the set of keys present.         *)
(***************************************************************************)
EXTENDS Integers, Sequences, FiniteSets, TLC

VARIABLES
    persist,    \* TTLCache._persist : series key -> deque [maxlen, items]
    store,      \* TTLCache._store   : ("deriv_1h", venue, symbol) -> CacheItem
    ctx2,       \* the Gate2DerivativesCtx returned by the latest get_gate2_ctx
    ncalls,     \* number of get_gate2_ctx calls made so far
    clock,      \* the latest clock reading (time.time())
    clockOK,    \* no clock reading so far was earlier than the one before it
    raw,        \* a raw ring handed to the read-side view (SpecView)
    view,       \* the filtered, de-duplicated, sorted view computed from raw
    g2in,       \* inputs of gate2_derivatives_regime (SpecGate2)
    g2out,      \* the Gate2Result it returned, with the GatePack flags
    pc,         \* position of main() in its loop
    client,     \* the client router.get_client() returned for this tick
    idx,        \* index into cfg.symbols of the symbol being processed
    trace,      \* what the current tick did, in order: stage, symbol, outcome
    journal,    \* JOURNAL records emitted in the current tick
    slept,      \* seconds of the latest time.sleep
    ticks,      \* number of ticks started
    g3in,       \* inputs of gate3_structure_confirmation_v0 (SpecGate3)
    g3out,      \* the Gate3Result handed to the planner
    planIn,     \* the planner's other inputs: snapshot, Gate 1 liquidity
    planOut,    \* what build_plan_v0 returned: a TradePlan or None
    scoreIn,    \* inputs of score_signal_v1 (SpecScore)
    scoreOut,   \* the ScoreResult it returned
    normIn,     \* a raw longAccount value (SpecNorm)
    normOut,    \* _normalize_long_pct of it, and of that output again
    fnIn,       \* arguments of a function analysed on its own (SpecMicro, ...)
    fnOut       \* what it returned

ringVars == <<persist, store, ctx2, ncalls, clock, clockOK>>
viewVars == <<raw, view>>
gateVars == <<g2in, g2out>>
loopVars == <<pc, client, idx, trace, journal, slept, ticks>>
pureVars == <<g3in, g3out, planIn, planOut, scoreIn, scoreOut, normIn, normOut, fnIn,
                   fnOut,
              fnIn, fnOut>>
vars == <<persist, store, ctx2, ncalls, clock, clockOK, raw, view,
          g2in, g2out, pc, client, idx, trace, journal, slept, ticks,
          g3in, g3out, planIn, planOut, scoreIn, scoreOut, normIn, normOut, fnIn,
                   fnOut,
          fnIn, fnOut>>

----------------------------------------------------------------------------
(* Bounds of the model *)

MaxCalls == 3       \* get_gate2_ctx calls explored by SpecRing
MaxHour == 2        \* clock readings lie in hours 0..MaxHour
HistMaxLen == 2     \* the hist_maxlen SpecRing passes (the code's default is 72)

(* Program constants *)

BucketSec == 3600
TtlSec == 30
ZWindow == 24

----------------------------------------------------------------------------
(* Optional numbers *)

None == <<>>
Some(x) == <<x>>
IsNum(v) == v # <<>>
Val(v) == v[1]
Abs(x) == IF x < 0 THEN -x ELSE x
Max2(a, b) == IF a >= b THEN a ELSE b
Min2(a, b) == IF a <= b THEN a ELSE b

(* Exchange clients and configured symbols, as strings *)

Binance == <<"binance">>
Kucoin == <<"kucoin">>
Venues == {Binance, Kucoin}
BTCUSDT == <<"BTCUSDT">>
ETHUSDT == <<"ETHUSDT">>
Symbols == {BTCUSDT, ETHUSDT}

(* Derivatives1H observations an exchange can report *)

Deriv(f, oi, r) == [funding_rate |-> f, open_interest |-> oi, ratio_long_pct |-> r]
ObsHot == Deriv(Some(22), Some(100), Some(720))
ObsCalm == Deriv(Some(5), Some(110), Some(500))
ObsEmpty == Deriv(None, None, None)
Obs == {ObsHot, ObsCalm}

ClockReadings == {h * BucketSec + o : h \in 0..MaxHour, o \in {0, 1800}}

----------------------------------------------------------------------------
(* TTLCache *)

NoCtx == [symbol |-> <<>>]

\* the mutant of SeriesKey: the key leaves the symbol out
SeriesKeyNoSymbol(name, symbol) == <<"deriv_series_1h", ":">> \o name

\* f"deriv_series_1h:{self.client.name}:{symbol}"
SeriesKey(name, symbol) ==
    <<"deriv_series_1h", ":">> \o name \o <<":">> \o symbol

DerivKey(name, symbol) == <<"deriv_1h", name, symbol>>

\* TTLCache.get: a live item's value, or None (an expired item is popped)
CacheHit(st, key, now) == key \in DOMAIN st /\ now < st[key].expires_at

\* TTLCache.set
CacheSet(st, key, value, now, ttl_sec) ==
    [k \in DOMAIN st \cup {key} |->
        IF k = key THEN [value |-> value, expires_at |-> now + ttl_sec] ELSE st[k]]

\* DerivativesFetcher.get_derivatives_1h: the value returned
GetDerivatives1h(st, name, symbol, now, fetched) ==
    IF CacheHit(st, DerivKey(name, symbol), now)
    THEN st[DerivKey(name, symbol)].value
    ELSE fetched

\* DerivativesFetcher.get_derivatives_1h: the store afterwards
StoreAfterGet(st, name, symbol, now, fetched, ttl_sec) ==
    IF CacheHit(st, DerivKey(name, symbol), now)
    THEN st
    ELSE CacheSet(st, DerivKey(name, symbol), fetched, now, ttl_sec)

\* TTLCache.get_or_create_deque: the deque under key, created empty if absent
GetOrCreateDeque(ps, key, maxlen) ==
    IF key \in DOMAIN ps THEN ps[key] ELSE [maxlen |-> maxlen, items |-> <<>>]

\* collections.deque.append under maxlen: a full deque drops its oldest item
DequeAppend(dq, p) ==
    IF Len(dq.items) >= dq.maxlen
    THEN [dq EXCEPT !.items = IF dq.maxlen = 0 THEN <<>> ELSE Append(Tail(dq.items), p)]
    ELSE [dq EXCEPT !.items = Append(dq.items, p)]

\* series[-1] = point
DequeSetLast(dq, p) == [dq EXCEPT !.items[Len(dq.items)] = p]

----------------------------------------------------------------------------
(* DerivativesFetcher.get_gate2_ctx *)

\* bucket_ts = (now // 3600) * 3600
BucketOf(now) == (now \div BucketSec) * BucketSec

Point(name, symbol, now, d) ==
    [ts |-> now, bucket_ts |-> BucketOf(now), exchange |-> name, symbol |-> symbol,
     oi |-> d.open_interest, funding |-> d.funding_rate,
     ratio_long_pct |-> d.ratio_long_pct]

\* should_append: false exactly when the last point is of this bucket, symbol, venue
ShouldAppend(dq, name, symbol, now) ==
    ~ ( /\ Len(dq.items) > 0
        /\ dq.items[Len(dq.items)].bucket_ts = BucketOf(now)
        /\ dq.items[Len(dq.items)].symbol = symbol
        /\ dq.items[Len(dq.items)].exchange = name )

\* the mutant of SeriesAfter: an observation of the last bucket is dropped
SeriesKeepFirst(dq, name, symbol, now, d) ==
    IF ShouldAppend(dq, name, symbol, now)
    THEN DequeAppend(dq, Point(name, symbol, now, d))
    ELSE dq

\* the series after the append-or-replace-last step
SeriesAfter(dq, name, symbol, now, d) ==
    IF ShouldAppend(dq, name, symbol, now)
    THEN DequeAppend(dq, Point(name, symbol, now, d))
    ELSE DequeSetLast(dq, Point(name, symbol, now, d))

\* the empty dict
EmptyDict == [k \in {} |-> 0]

\* the dict with the value under key set
DictSet(dct, key, value) ==
    [k \in DOMAIN dct \cup {key} |-> IF k = key THEN value ELSE dct[k]]

\* ascending list of a finite set of integers: sorted(by_bucket.keys())
RECURSIVE SortedSeq(_)
SortedSeq(S) ==
    IF S = {} THEN <<>>
    ELSE LET m == CHOOSE x \in S : \A y \in S : x <= y
         IN <<m>> \o SortedSeq(S \ {m})

\* pts_sym: the points of exactly this venue and symbol, in ring order
FilterPts(items, name, symbol) ==
    SelectSeq(items, LAMBDA p : p.symbol = symbol /\ p.exchange = name)

\* the mutant of LatestOf: the first point of a bucket is kept
EarliestOf(pts, b) ==
    pts[CHOOSE i \in 1..Len(pts) :
            /\ pts[i].bucket_ts = b
            /\ \A j \in 1..Len(pts) : pts[j].bucket_ts = b => j >= i]

\* by_bucket[b]: a later point of a bucket overwrites an earlier one
LatestOf(pts, b) ==
    pts[CHOOSE i \in 1..Len(pts) :
            /\ pts[i].bucket_ts = b
            /\ \A j \in 1..Len(pts) : pts[j].bucket_ts = b => j <= i]

\* the view the statistics are computed from: filter, one point per bucket, sorted
ViewOf(items, name, symbol) ==
    LET pts == FilterPts(items, name, symbol)
        ks == SortedSeq({pts[i].bucket_ts : i \in 1..Len(pts)})
    IN [i \in 1..Len(ks) |-> LatestOf(pts, ks[i])]

\* the last n elements of a list: pts[-n:]
LastN(pts, n) ==
    IF Len(pts) <= n THEN pts ELSE SubSeq(pts, Len(pts) - n + 1, Len(pts))

\* oi_delta: cur - prev of the last two points of the view
OiDelta(pts) ==
    IF Len(pts) >= 2 /\ IsNum(pts[Len(pts) - 1].oi) /\ IsNum(pts[Len(pts)].oi)
    THEN Some(Val(pts[Len(pts)].oi) - Val(pts[Len(pts) - 1].oi))
    ELSE None

\* ratio_dev = |ratio_long_pct - 50|
RatioDev(d) ==
    IF IsNum(d.ratio_long_pct) THEN Some(Abs(Val(d.ratio_long_pct) - 500)) ELSE None

\* ratio skew persistence over the last 4 buckets (>= 67.5 or <= 32.5)
RatioHits(pts) ==
    Cardinality({i \in 1..Len(LastN(pts, 4)) :
        /\ IsNum(LastN(pts, 4)[i].ratio_long_pct)
        /\ \/ Val(LastN(pts, 4)[i].ratio_long_pct) >= 675
           \/ Val(LastN(pts, 4)[i].ratio_long_pct) <= 325})

\* funding extreme persistence over the last 4 buckets (|funding| >= 0.00015)
FundHits(pts) ==
    Cardinality({i \in 1..Len(LastN(pts, 4)) :
        /\ IsNum(LastN(pts, 4)[i].funding)
        /\ Abs(Val(LastN(pts, 4)[i].funding)) >= 15})

Confirm4h(pts) == Len(pts) >= 4 /\ (RatioHits(pts) >= 2 \/ FundHits(pts) >= 2)

\* the mutant of Ready: twelve buckets suffice
ReadyAtTwelve(pts, z_window) == Len(pts) >= 12

\* ready = len(pts_sym) >= max(12, min(18, z_window))
Ready(pts, z_window) == Len(pts) >= Max2(12, Min2(18, z_window))

\* the Gate2DerivativesCtx returned (the z-scores, which need a square root over
\* floats, are inputs of Gate 2 in SpecGate2 and are not computed here)
Gate2Ctx(name, symbol, now, d, pts, z_window) ==
    [symbol |-> symbol, exchange |-> name, last |-> d, ts |-> now,
     bucket_ts |-> BucketOf(now), oi_delta |-> OiDelta(pts),
     ratio_dev |-> RatioDev(d), confirm4h |-> Confirm4h(pts),
     confirm4h_reason |-> IF Confirm4h(pts)
                          THEN <<"persist_ratio", RatioHits(pts), "fund", FundHits(pts)>>
                          ELSE <<"na">>,
     ready |-> Ready(pts, z_window), history_len |-> Len(pts)]

\* get_gate2_ctx(symbol, ttl_sec=30, hist_maxlen, z_window) on the client `name`,
\* at clock reading `now`, with `fetched` what the exchange would report
GetGate2Ctx(name, symbol, now, fetched, hist_maxlen, z_window) ==
    LET d == GetDerivatives1h(store, name, symbol, now, fetched)
        key == SeriesKey(name, symbol)
        series == SeriesAfter(GetOrCreateDeque(persist, key, hist_maxlen),
                              name, symbol, now, d)
    IN /\ store' = StoreAfterGet(store, name, symbol, now, fetched, TtlSec)
       /\ persist' = DictSet(persist, key, series)
       /\ ctx2' = Gate2Ctx(name, symbol, now, d,
                           ViewOf(series.items, name, symbol), z_window)

\* the ring of a (venue, symbol) pair in a _persist dict
RingOfIn(ps, name, symbol) ==
    IF SeriesKey(name, symbol) \in DOMAIN ps
    THEN ps[SeriesKey(name, symbol)].items
    ELSE <<>>

RingOf(name, symbol) == RingOfIn(persist, name, symbol)

----------------------------------------------------------------------------
(* SpecRing: any sequence of get_gate2_ctx calls under any clock readings *)

RingPairs == {<<Binance, BTCUSDT>>, <<Binance, ETHUSDT>>}

IdleView == /\ raw = <<>>
            /\ view = <<>>
IdleGate == /\ g2in = <<>>
            /\ g2out = <<>>
IdleLoop == /\ pc = "off"
            /\ client = <<>>
            /\ idx = 0
            /\ trace = <<>>
            /\ journal = <<>>
            /\ slept = 0
            /\ ticks = 0
IdlePure == /\ g3in = <<>>
            /\ g3out = <<>>
            /\ planIn = <<>>
            /\ planOut = <<>>
            /\ scoreIn = <<>>
            /\ scoreOut = <<>>
            /\ normIn = <<>>
            /\ normOut = <<>>
            /\ fnIn = <<>>
            /\ fnOut = <<>>
IdleRing == /\ persist = EmptyDict
            /\ store = EmptyDict
            /\ ctx2 = NoCtx
            /\ ncalls = 0
            /\ clock = 0
            /\ clockOK = TRUE

InitRing == IdleRing /\ IdleView /\ IdleGate /\ IdleLoop /\ IdlePure

RingCall ==
    /\ ncalls < MaxCalls
    /\ \E pr \in RingPairs, now \in ClockReadings, fetched \in Obs :
          /\ GetGate2Ctx(pr[1], pr[2], now, fetched, HistMaxLen, ZWindow)
          /\ clock' = now
          /\ clockOK' = (clockOK /\ (ncalls = 0 \/ now >= clock))
    /\ ncalls' = ncalls + 1
    /\ UNCHANGED <<viewVars, gateVars, pureVars, loopVars>>

NextRing == RingCall

SpecRing == InitRing /\ [][NextRing]_vars

\* strictly increasing bucket_ts, read in ring order
StrictlyIncreasing(items) ==
    \A i \in 1..Len(items) - 1 : items[i].bucket_ts < items[i + 1].bucket_ts

\* C1 as stated: under any clock readings every ring holds at most hist_maxlen
\* points and its bucket_ts values are unique and strictly increasing
C1_AsStated ==
    \A k \in DOMAIN persist :
        /\ Len(persist[k].items) <= HistMaxLen
        /\ StrictlyIncreasing(persist[k].items)

\* the part of C1 that holds: every ring holds at most hist_maxlen points under
\* any clock readings, and its bucket_ts values are strictly increasing (hence
\* unique) as long as no clock reading was earlier than the one before it
C1_RingBoundedAndOrdered ==
    \A k \in DOMAIN persist :
        /\ persist[k].maxlen = HistMaxLen
        /\ Len(persist[k].items) <= HistMaxLen
        /\ clockOK => StrictlyIncreasing(persist[k].items)

\* a full ring that has dropped its oldest point, under a non-decreasing clock
C1_Witness ==
    /\ clockOK
    /\ ncalls > HistMaxLen
    /\ \E k \in DOMAIN persist :
          /\ Len(persist[k].items) = HistMaxLen
          /\ persist[k].items[1].bucket_ts > 0
          /\ persist[k].items[HistMaxLen].bucket_ts >= HistMaxLen * BucketSec

\* the step is a get_gate2_ctx call
IsCall == ncalls' = ncalls + 1

\* the ring of the called pair before and after the call
CalledBefore == RingOf(ctx2'.exchange, ctx2'.symbol)
CalledAfter == RingOfIn(persist', ctx2'.exchange, ctx2'.symbol)

SameBucketCall ==
    /\ Len(CalledBefore) > 0
    /\ CalledBefore[Len(CalledBefore)].bucket_ts = ctx2'.bucket_ts

CarriesObservation(p) ==
    /\ p.ts = ctx2'.ts
    /\ p.bucket_ts = ctx2'.bucket_ts
    /\ p.oi = ctx2'.last.open_interest
    /\ p.funding = ctx2'.last.funding_rate
    /\ p.ratio_long_pct = ctx2'.last.ratio_long_pct

ReplacedInPlace ==
    /\ Len(CalledAfter) = Len(CalledBefore)
    /\ \A i \in 1..Len(CalledBefore) - 1 : CalledAfter[i] = CalledBefore[i]
    /\ CarriesObservation(CalledAfter[Len(CalledAfter)])

\* C2 as stated: a call in the last point's bucket replaces it in place, and the
\* first call of a new hour grows the ring by exactly 1
C2_AsStated ==
    [][IsCall =>
          /\ SameBucketCall => ReplacedInPlace
          /\ ~SameBucketCall => /\ Len(CalledAfter) = Len(CalledBefore) + 1
                                /\ CarriesObservation(CalledAfter[Len(CalledAfter)])]_vars

\* C2 amended: a call in the last point's bucket replaces it in place; the first
\* call of another hour appends its point, growing the ring by exactly 1 while
\* the ring holds fewer than hist_maxlen points and otherwise dropping the
\* oldest point so that the length stays hist_maxlen
C2_ReplaceOrAppend ==
    [][IsCall =>
          /\ SameBucketCall => ReplacedInPlace
          /\ ~SameBucketCall =>
                /\ CarriesObservation(CalledAfter[Len(CalledAfter)])
                /\ Len(CalledBefore) < HistMaxLen =>
                      /\ Len(CalledAfter) = Len(CalledBefore) + 1
                      /\ \A i \in 1..Len(CalledBefore) : CalledAfter[i] = CalledBefore[i]
                /\ Len(CalledBefore) >= HistMaxLen =>
                      /\ Len(CalledAfter) = HistMaxLen
                      /\ \A i \in 1..HistMaxLen - 1 :
                            CalledAfter[i] = CalledBefore[i + 1]]_vars

\* three observations inside one hour: the ring grew by 1 and the third, which
\* differs from the second, is the one stored
C2_Witness ==
    /\ ncalls = 3
    /\ Cardinality(DOMAIN persist) = 1
    /\ \E k \in DOMAIN persist :
          /\ Len(persist[k].items) = 1
          /\ persist[k].items[1].ts = 1800
          /\ persist[k].items[1].oi = ObsCalm.open_interest

----------------------------------------------------------------------------
(* SpecFrame: get_gate2_ctx calls over every (venue, symbol) pair *)

MaxFrameCalls == 3

AllPairs == Venues \X Symbols

FrameClock == {0, 1800, 3600}

FrameCall ==
    /\ ncalls < MaxFrameCalls
    /\ \E pr \in AllPairs, now \in FrameClock, fetched \in {ObsHot, ObsEmpty} :
          /\ GetGate2Ctx(pr[1], pr[2], now, fetched, HistMaxLen, ZWindow)
          /\ clock' = now
          /\ clockOK' = (clockOK /\ (ncalls = 0 \/ now >= clock))
    /\ ncalls' = ncalls + 1
    /\ UNCHANGED <<viewVars, gateVars, pureVars, loopVars>>

NextFrame == FrameCall

SpecFrame == InitRing /\ [][NextFrame]_vars

\* distinct (venue, symbol) pairs have distinct series keys
KeysDistinct ==
    \A p \in AllPairs, q \in AllPairs :
        p # q => SeriesKey(p[1], p[2]) # SeriesKey(q[1], q[2])

\* every point of the ring of a pair was written for that pair
OwnPointsOnly(ps) ==
    \A pr \in AllPairs :
        \A i \in 1..Len(RingOfIn(ps, pr[1], pr[2])) :
            /\ RingOfIn(ps, pr[1], pr[2])[i].exchange = pr[1]
            /\ RingOfIn(ps, pr[1], pr[2])[i].symbol = pr[2]

\* the call changed nothing but the ring of the called pair
OnlyCalledRingChanged ==
    /\ \A pr \in AllPairs :
          pr # <<ctx2'.exchange, ctx2'.symbol>> =>
              RingOfIn(persist', pr[1], pr[2]) = RingOf(pr[1], pr[2])
    /\ \A k \in DOMAIN persist' :
          k # SeriesKey(ctx2'.exchange, ctx2'.symbol) =>
              k \in DOMAIN persist /\ persist'[k] = persist[k]
    /\ DOMAIN persist \subseteq DOMAIN persist'

\* C4: a get_gate2_ctx call for (V, S) modifies only the ring under the key of
\* (V, S), every other pair's ring is unchanged, and no two distinct pairs share
\* a ring: their keys differ and each ring holds only its own pair's points
C4_FrameAndNoSharing ==
    [][IsCall => /\ KeysDistinct
                 /\ OnlyCalledRingChanged
                 /\ OwnPointsOnly(persist')
                 /\ ctx2'.history_len <= Len(CalledAfter)]_vars

\* three pairs, one differing from another in the venue only and one in the
\* symbol only, each hold their own ring
C4_Witness ==
    /\ Len(RingOf(Binance, BTCUSDT)) = 1
    /\ Len(RingOf(Kucoin, BTCUSDT)) = 1
    /\ Len(RingOf(Binance, ETHUSDT)) = 1
    /\ RingOf(Binance, BTCUSDT)[1].oi # RingOf(Binance, ETHUSDT)[1].oi

----------------------------------------------------------------------------
(* SpecView: the read-side view of get_gate2_ctx over any raw ring *)

MaxRawLen == 3

ViewPairs == {<<Binance, BTCUSDT>>, <<Binance, ETHUSDT>>, <<Kucoin, BTCUSDT>>}

ViewPoints ==
    {Point(pr[1], pr[2], now, ObsHot) :
        pr \in ViewPairs, now \in {0, 1800, 3600, 5400, 7200, 9000}}

SeqsUpTo(S, n) == UNION {[1..m -> S] : m \in 0..n}

NoView == [symbol |-> <<>>]

InitView ==
    /\ raw \in SeqsUpTo(ViewPoints, MaxRawLen)
    /\ view = NoView
    /\ persist = EmptyDict
    /\ store = EmptyDict
    /\ ctx2 = NoCtx
    /\ ncalls = 0
    /\ clock = 0
    /\ clockOK = TRUE
    /\ IdleGate
    /\ IdleLoop
    /\ IdlePure

\* lines 107-121 and 252-272 of get_gate2_ctx applied to the ring `raw`
ReadView ==
    /\ view = NoView
    /\ \E pr \in ViewPairs :
          view' = [exchange |-> pr[1], symbol |-> pr[2],
                   pts |-> ViewOf(raw, pr[1], pr[2]),
                   history_len |->
                       Gate2Ctx(pr[1], pr[2], 0, ObsHot,
                                ViewOf(raw, pr[1], pr[2]), ZWindow).history_len]
    /\ UNCHANGED <<raw, ringVars, gateVars, pureVars, loopVars>>

NextView == ReadView

SpecView == InitView /\ [][NextView]_vars

\* indices of the raw points of exactly (name, symbol)
OwnIdx(name, symbol) ==
    {j \in 1..Len(raw) : raw[j].exchange = name /\ raw[j].symbol = symbol}

\* C3: whatever the raw ring contains, the view holds only points of the exact
\* (venue, symbol), exactly one point per bucket_ts of those points, namely the
\* one latest in ring order, in strictly ascending bucket_ts order, and
\* history_len is the size of the view
C3_ViewFilteredDedupedSorted ==
    view # NoView =>
        LET own == OwnIdx(view.exchange, view.symbol)
            buckets == {raw[j].bucket_ts : j \in own}
        IN /\ \A i \in 1..Len(view.pts) :
                 /\ view.pts[i].exchange = view.exchange
                 /\ view.pts[i].symbol = view.symbol
                 /\ view.pts[i].bucket_ts \in buckets
           /\ StrictlyIncreasing(view.pts)
           /\ \A b \in buckets :
                 \E i \in 1..Len(view.pts) :
                    /\ view.pts[i].bucket_ts = b
                    /\ \E j \in own :
                          /\ raw[j] = view.pts[i]
                          /\ \A j2 \in own : raw[j2].bucket_ts = b => j2 <= j
           /\ Len(view.pts) = Cardinality(buckets)
           /\ view.history_len = Cardinality(buckets)

\* a raw ring with a foreign point, a duplicated bucket and out-of-order buckets
C3_Witness ==
    /\ view # NoView
    /\ Len(raw) = 3
    /\ Len(view.pts) = 1
    /\ raw[1].symbol # view.symbol
    /\ raw[2].bucket_ts = raw[3].bucket_ts
    /\ raw[1].bucket_ts > raw[2].bucket_ts
    /\ raw[2].ts > raw[3].ts
    /\ view.pts[1] = raw[3]

----------------------------------------------------------------------------
(* gate2_derivatives_regime *)

\* _ratio_skew
RatioSkew(rlp) ==
    IF ~IsNum(rlp) THEN "None"
    ELSE IF Val(rlp) >= 650 THEN "LONG"
    ELSE IF Val(rlp) <= 350 THEN "SHORT"
    ELSE "None"

\* _directional_hint
DirectionalHint(regime, skew) ==
    IF regime = "healthy_trend" THEN "continuation_preferred"
    ELSE IF regime = "crowded_squeeze"
         THEN IF skew = "LONG" THEN "reversal_or_flush_risk"
              ELSE IF skew = "SHORT" THEN "reversal_or_squeeze_up_risk"
              ELSE "squeeze_risk"
    ELSE "no_trade"

\* funding_z: recomputed from the rolling mean/std when funding and both are
\* numbers (0.0 under a tiny std), else ctx.funding_z; then clamped to [-6, 6].
\* The inputs are chosen so that the division is exact in tenths.
FundingZ(in) ==
    LET z0 == IF IsNum(in.funding) /\ IsNum(in.funding_mean) /\ IsNum(in.funding_std)
              THEN IF Val(in.funding_std) > 0
                   THEN Some(((Val(in.funding) - Val(in.funding_mean)) * 10)
                                 \div Val(in.funding_std))
                   ELSE Some(0)
              ELSE in.funding_z
    IN IF ~IsNum(z0) THEN None
       ELSE IF Val(z0) > 60 THEN Some(60)
       ELSE IF Val(z0) < -60 THEN Some(-60)
       ELSE z0

\* the mutant of HardCrowdedRatio: the bands are 75 and 25
HardCrowdedRatioNarrow(rlp) == IsNum(rlp) /\ (Val(rlp) >= 750 \/ Val(rlp) <= 250)

\* hard guards
HardCrowdedRatio(rlp) == IsNum(rlp) /\ (Val(rlp) >= 700 \/ Val(rlp) <= 300)
HardExtremeFunding(funding) == IsNum(funding) /\ Abs(Val(funding)) >= 20
HardOiSpike(z) == IsNum(z) /\ Val(z) >= 30

B2I(b) == IF b THEN 1 ELSE 0

HardHits(in) ==
    B2I(HardCrowdedRatio(in.ratio_long_pct)) + B2I(HardExtremeFunding(in.funding))
        + B2I(HardOiSpike(in.oi_spike_z))

HardReason(in) ==
    IF HardOiSpike(in.oi_spike_z)
          /\ (HardCrowdedRatio(in.ratio_long_pct) \/ HardExtremeFunding(in.funding))
    THEN "oi_spike_hard"
    ELSE IF HardExtremeFunding(in.funding) /\ HardCrowdedRatio(in.ratio_long_pct)
    THEN "ratio_funding_hard"
    ELSE IF HardCrowdedRatio(in.ratio_long_pct) THEN "ratio_crowded_hard"
    ELSE "funding_extreme_hard"

AllStats(in) ==
    IsNum(in.ratio_long_pct) /\ IsNum(FundingZ(in)) /\ IsNum(in.oi_spike_z)

\* confidence for the hard-guard path
HardConfidence(in) ==
    IF ~in.ready THEN "LOW"
    ELSE IF AllStats(in) THEN "HIGH"
    ELSE "MED"

G2Result(in, passed, reason, regime, hint, confidence, alert_only, fe, ois) ==
    [passed |-> passed, reason |-> reason, regime |-> regime,
     directional_bias_hint |-> hint, confidence |-> confidence,
     alert_only |-> alert_only, confirm4h |-> in.confirm4h,
     ratio_skew |-> RatioSkew(in.ratio_long_pct), funding_extreme |-> fe,
     oi_spike |-> ois, ratio_long_pct |-> in.ratio_long_pct,
     funding |-> in.funding, funding_z |-> FundingZ(in),
     oi_spike_z |-> in.oi_spike_z]

\* the mutant of AlertOnlyResult: the alert is returned as a pass
AlertOnlyAsPass(in) ==
    G2Result(in, TRUE, <<"alert_only", HardReason(in)>>, "crowded_squeeze",
             "no_trade", "LOW", TRUE,
             HardExtremeFunding(in.funding), HardOiSpike(in.oi_spike_z))

\* hard guards hit and the context is not ready: alert only
AlertOnlyResult(in) ==
    G2Result(in, FALSE, <<"alert_only", HardReason(in)>>, "crowded_squeeze",
             "no_trade", "LOW", TRUE,
             HardExtremeFunding(in.funding), HardOiSpike(in.oi_spike_z))

\* hard guards hit and the context is ready
HardPassResult(in) ==
    G2Result(in, TRUE, <<HardReason(in)>>, "crowded_squeeze",
             DirectionalHint("crowded_squeeze", RatioSkew(in.ratio_long_pct)),
             HardConfidence(in), FALSE,
             HardExtremeFunding(in.funding), HardOiSpike(in.oi_spike_z))

\* the mutant of InsufficientHistoryResult: a context that is not ready is
\* classified as a healthy trend
NotReadyAsHealthyTrend(in) ==
    G2Result(in, TRUE, <<"pass">>, "healthy_trend",
             DirectionalHint("healthy_trend", RatioSkew(in.ratio_long_pct)),
             "LOW", FALSE, FALSE, FALSE)

\* the context is not ready and fewer than two hard guards hold
InsufficientHistoryResult(in) ==
    G2Result(in, FALSE, <<"insufficient_history", in.history_len>>, "neutral",
             DirectionalHint("neutral", RatioSkew(in.ratio_long_pct)),
             "LOW", FALSE, FALSE, FALSE)

\* soft classification
CrowdedRatio(rlp) == IsNum(rlp) /\ (Val(rlp) >= 675 \/ Val(rlp) <= 325)

ExtremeFunding(in) ==
    IF IsNum(FundingZ(in)) THEN Abs(Val(FundingZ(in))) >= 20
    ELSE IsNum(in.funding) /\ Abs(Val(in.funding)) >= 15

OiSpike(z) == IsNum(z) /\ Val(z) >= 25

SoftConfidence(in) == IF AllStats(in) /\ in.confirm4h THEN "HIGH" ELSE "MED"

SqueezeHits(in) ==
    B2I(CrowdedRatio(in.ratio_long_pct)) + B2I(ExtremeFunding(in))
        + B2I(OiSpike(in.oi_spike_z))

SoftReason(in) ==
    LET cr == CrowdedRatio(in.ratio_long_pct)
        ef == ExtremeFunding(in)
        os == OiSpike(in.oi_spike_z)
    IN IF os /\ ef THEN "funding_extreme_oi_spike"
       ELSE IF os /\ cr THEN "ratio_crowded_oi_spike"
       ELSE IF ef /\ cr THEN "ratio_crowded_funding_extreme"
       ELSE IF os THEN "oi_spike"
       ELSE IF ef THEN "funding_extreme"
       ELSE "ratio_crowded"

RatioOk(rlp) == IsNum(rlp) => (Val(rlp) <= 650 /\ Val(rlp) >= 350)

FundingOk(in) ==
    IF IsNum(FundingZ(in)) THEN Abs(Val(FundingZ(in))) <= 15
    ELSE IsNum(in.funding) => Abs(Val(in.funding)) <= 10

OiOk(z) == IsNum(z) => Val(z) < 20

\* the mutant of NeutralResult: the watch-only return of the ratio-skew
\* relaxation (written after the last return of the function) comes first
NeutralAfterRatioSkew(in) ==
    IF CrowdedRatio(in.ratio_long_pct)
    THEN G2Result(in, FALSE, <<"alert_only_ratio_skew_unconfirmed">>, "crowded_squeeze",
                  "no_trade", IF in.ready THEN "MED" ELSE "LOW", TRUE,
                  ExtremeFunding(in), OiSpike(in.oi_spike_z))
    ELSE G2Result(in, FALSE, <<"neutral">>, "neutral",
                  DirectionalHint("neutral", RatioSkew(in.ratio_long_pct)),
                  IF in.ready THEN "MED" ELSE "LOW", FALSE,
                  ExtremeFunding(in), OiSpike(in.oi_spike_z))

\* the last return of the function: neutral
NeutralResult(in) ==
    G2Result(in, FALSE, <<"neutral">>, "neutral",
             DirectionalHint("neutral", RatioSkew(in.ratio_long_pct)),
             IF in.ready THEN "MED" ELSE "LOW", FALSE,
             ExtremeFunding(in), OiSpike(in.oi_spike_z))

\* gate2_derivatives_regime(snapshot, ctx), up to its last reachable return
Gate2(in) ==
    IF HardHits(in) >= 2
    THEN IF ~in.ready THEN AlertOnlyResult(in) ELSE HardPassResult(in)
    ELSE IF ~in.ready THEN InsufficientHistoryResult(in)
    ELSE IF SqueezeHits(in) >= 2 /\ (in.confirm4h \/ SqueezeHits(in) = 3)
    THEN G2Result(in, TRUE, <<SoftReason(in)>>, "crowded_squeeze",
                  DirectionalHint("crowded_squeeze", RatioSkew(in.ratio_long_pct)),
                  SoftConfidence(in), FALSE,
                  ExtremeFunding(in), OiSpike(in.oi_spike_z))
    ELSE IF RatioOk(in.ratio_long_pct) /\ FundingOk(in) /\ OiOk(in.oi_spike_z)
    THEN G2Result(in, TRUE, <<"pass">>, "healthy_trend",
                  DirectionalHint("healthy_trend", RatioSkew(in.ratio_long_pct)),
                  IF AllStats(in) THEN "HIGH" ELSE "MED", FALSE, FALSE, FALSE)
    ELSE NeutralResult(in)

\* GatePack.passed_all
PassedAll(g1_passed, g2, g3_passed) == g1_passed /\ g2.passed /\ g3_passed

\* GatePack.trade_eligible
TradeEligible(g1_passed, g2, g3_passed) ==
    IF ~PassedAll(g1_passed, g2, g3_passed) THEN FALSE
    ELSE IF g2.alert_only THEN FALSE
    ELSE TRUE

----------------------------------------------------------------------------
(* SpecGate2: gate2_derivatives_regime over any context *)

RatioInputs == {None, Some(250), Some(300), Some(325), Some(350), Some(500),
                Some(650), Some(675), Some(700), Some(720)}
FundingInputs == {None, Some(-22), Some(-20), Some(5), Some(10), Some(15),
                  Some(20), Some(22)}
OiZInputs == {None, Some(10), Some(20), Some(25), Some(30)}
\* (ctx.funding_z, ctx.funding_mean, ctx.funding_std)
FundingStatInputs == {<<None, None, None>>, <<Some(0), Some(5), Some(0)>>,
                      <<Some(10), Some(0), Some(10)>>, <<Some(16), Some(4), Some(5)>>,
                      <<Some(70), None, None>>}
\* (ctx.ready, ctx.history_len)
ReadyInputs == {<<FALSE, 3>>, <<TRUE, 20>>}

Gate2Inputs ==
    {[ratio_long_pct |-> r, funding |-> f, funding_z |-> st[1],
      funding_mean |-> st[2], funding_std |-> st[3], oi_spike_z |-> z,
      confirm4h |-> c, ready |-> rd[1], history_len |-> rd[2]] :
        r \in RatioInputs, f \in FundingInputs, st \in FundingStatInputs,
        z \in OiZInputs, c \in BOOLEAN, rd \in ReadyInputs}

NoResult == [passed |-> FALSE, regime |-> "none"]

InitGate2 ==
    /\ g2in \in Gate2Inputs
    /\ g2out = [g2 |-> NoResult]
    /\ IdleRing
    /\ IdleView
    /\ IdleLoop
    /\ IdlePure

\* Gate 2 is evaluated and a GatePack is built around its result
EvalGate2 ==
    /\ g2out.g2 = NoResult
    /\ \E g1_passed \in BOOLEAN, g3_passed \in BOOLEAN :
          g2out' = [g2 |-> Gate2(g2in),
                    g1_passed |-> g1_passed, g3_passed |-> g3_passed,
                    passed_all |-> PassedAll(g1_passed, Gate2(g2in), g3_passed),
                    trade_eligible |->
                        TradeEligible(g1_passed, Gate2(g2in), g3_passed)]
    /\ UNCHANGED <<g2in, ringVars, viewVars, loopVars, pureVars>>

NextGate2 == EvalGate2

SpecGate2 == InitGate2 /\ [][NextGate2]_vars

Evaluated == g2out.g2 # NoResult

\* C9: every Gate2Result with alert_only=true has passed=false, and every
\* GatePack with passed_all=true has trade_eligible=true
C9_AlertOnlyNeverPasses ==
    Evaluated =>
        /\ g2out.g2.alert_only => ~g2out.g2.passed
        /\ g2out.passed_all => g2out.trade_eligible

\* an alert-only result inside a pack whose Gate 1 and Gate 3 passed
C9_Witness ==
    /\ Evaluated
    /\ g2out.g2.alert_only
    /\ g2out.g1_passed
    /\ g2out.g3_passed
    /\ ~g2out.passed_all

\* the number of hard guards that hold, read off the context
GuardsHeld ==
    B2I(IsNum(g2in.ratio_long_pct)
          /\ (Val(g2in.ratio_long_pct) >= 700 \/ Val(g2in.ratio_long_pct) <= 300))
    + B2I(IsNum(g2in.funding) /\ Abs(Val(g2in.funding)) >= 20)
    + B2I(IsNum(g2in.oi_spike_z) /\ Val(g2in.oi_spike_z) >= 30)

\* C10: with at least two hard guards holding the regime is crowded_squeeze;
\* not ready gives passed=false, alert_only=true; ready gives passed=true,
\* alert_only=false
C10_HardGuards ==
    (Evaluated /\ GuardsHeld >= 2) =>
        /\ g2out.g2.regime = "crowded_squeeze"
        /\ ~g2in.ready => (~g2out.g2.passed /\ g2out.g2.alert_only)
        /\ g2in.ready => (g2out.g2.passed /\ ~g2out.g2.alert_only)

\* history_len=3, ratio 72, funding 0.00022
C10_Witness ==
    /\ Evaluated
    /\ g2in.history_len = 3
    /\ ~g2in.ready
    /\ g2in.ratio_long_pct = Some(720)
    /\ g2in.funding = Some(22)
    /\ g2in.oi_spike_z = None
    /\ ~g2out.g2.passed
    /\ g2out.g2.alert_only
    /\ g2out.g2.regime = "crowded_squeeze"

\* the three statistics the soft classification reads: the ratio, the funding
\* z-score the gate works with (recomputed and clamped) and the OI spike score
StatRatio == g2in.ratio_long_pct
StatFundingZ == g2out.g2.funding_z
StatOiZ == g2in.oi_spike_z

\* ratio in [35,65], |funding_z| <= 1.5, oi_spike_z < 2.0, all three defined
InBandStrict ==
    /\ IsNum(StatRatio) /\ Val(StatRatio) >= 350 /\ Val(StatRatio) <= 650
    /\ IsNum(StatFundingZ) /\ Abs(Val(StatFundingZ)) <= 15
    /\ IsNum(StatOiZ) /\ Val(StatOiZ) < 20

\* the same bands where an undefined statistic is not checked, and an undefined
\* funding_z is replaced by |funding| <= 0.00010 when funding is defined
InBandWhereDefined ==
    /\ IsNum(StatRatio) => (Val(StatRatio) >= 350 /\ Val(StatRatio) <= 650)
    /\ IF IsNum(StatFundingZ) THEN Abs(Val(StatFundingZ)) <= 15
       ELSE IsNum(g2in.funding) => Abs(Val(g2in.funding)) <= 10
    /\ IsNum(StatOiZ) => Val(StatOiZ) < 20

SoftUndecided == Evaluated /\ g2in.ready /\ g2out.g2.regime # "crowded_squeeze"

\* C11 as stated: ready and not crowded_squeeze gives healthy_trend (passed)
\* iff ratio in [35,65], |funding_z| <= 1.5 and oi_spike_z < 2.0, and neutral
\* (not passed) in every other case
C11_AsStated ==
    SoftUndecided =>
        IF InBandStrict
        THEN g2out.g2.regime = "healthy_trend" /\ g2out.g2.passed
        ELSE g2out.g2.regime = "neutral" /\ ~g2out.g2.passed

\* what the code does in the case of C11: ready and not crowded_squeeze gives
\* healthy_trend (passed) iff every DEFINED statistic is in its band (an
\* undefined funding_z falling back to |funding| <= 0.00010), and neutral (not
\* passed) in every other case
C11_HealthyTrend ==
    SoftUndecided =>
        IF InBandWhereDefined
        THEN g2out.g2.regime = "healthy_trend" /\ g2out.g2.passed
        ELSE g2out.g2.regime = "neutral" /\ ~g2out.g2.passed

\* a healthy trend at the edge of the ratio band with no OI spike score, and
\* (as a second state) a neutral result one step past the OI band
C11_Witness ==
    /\ SoftUndecided
    /\ \/ /\ StatRatio = Some(650)
          /\ StatOiZ = None
          /\ IsNum(StatFundingZ)
          /\ g2out.g2.regime = "healthy_trend"
       \/ /\ StatRatio = Some(500)
          /\ StatOiZ = Some(20)
          /\ StatFundingZ = Some(0)
          /\ g2out.g2.regime = "neutral"

\* C12: confidence is HIGH only when the context is ready, the three statistics
\* are defined and confirm4h is true; a not-ready context gives LOW
C12_AsStated ==
    Evaluated =>
        /\ g2out.g2.confidence = "HIGH" =>
              /\ g2in.ready
              /\ IsNum(StatRatio) /\ IsNum(StatFundingZ) /\ IsNum(StatOiZ)
              /\ g2out.g2.confirm4h
        /\ ~g2in.ready => g2out.g2.confidence = "LOW"

\* the part of C12 that holds: HIGH needs a ready context and the three
\* statistics defined, and a not-ready context gives LOW
C12_HighNeedsReadyAndStats ==
    Evaluated =>
        /\ g2out.g2.confidence = "HIGH" =>
              /\ g2in.ready
              /\ IsNum(StatRatio) /\ IsNum(StatFundingZ) /\ IsNum(StatOiZ)
        /\ ~g2in.ready => g2out.g2.confidence = "LOW"


\* the reasons of the ratio-skew relaxation
RatioSkewReasons ==
    {<<"ratio_skew">>, <<"ratio_skew_oi_slope">>, <<"ratio_skew_disp_1h">>,
     <<"ratio_skew_oi_slope_disp">>, <<"alert_only_ratio_skew_unconfirmed">>,
     <<"alert_only", "ratio_skew_unconfirmed">>}

\* a soft-crowded ratio (>= 67.5 or <= 32.5), read off the context
RatioSoftCrowded ==
    /\ g2in.ratio_long_pct # None
    /\ (Val(g2in.ratio_long_pct) >= 675 \/ Val(g2in.ratio_long_pct) <= 325)

\* C28: gate2_derivatives_regime never returns a reason of the ratio-skew
\* relaxation, and every result with alert_only=true comes from the hard-guard
\* path with ctx.ready=false and has regime crowded_squeeze, hint no_trade and
\* confidence LOW.
C28_NoRatioSkewRelaxation ==
    Evaluated =>
        /\ g2out.g2.reason \notin RatioSkewReasons
        /\ g2out.g2.alert_only =>
              /\ ~g2in.ready
              /\ GuardsHeld >= 2
              /\ g2out.g2.reason[1] = "alert_only"
              /\ g2out.g2.regime = "crowded_squeeze"
              /\ g2out.g2.directional_bias_hint = "no_trade"
              /\ g2out.g2.confidence = "LOW"

\* a ready context with a crowded ratio and nothing else: the result is the
\* plain neutral one, where the relaxation would have spoken
C28_Witness ==
    /\ Evaluated
    /\ g2in.ready
    /\ RatioSoftCrowded
    /\ GuardsHeld < 2
    /\ g2out.g2.reason = <<"neutral">>
    /\ g2out.g2.regime = "neutral"
    /\ ~g2out.g2.alert_only
    /\ ~g2out.g2.passed

\* an alert-only result of the hard-guard path
C28_HardAlertReached ==
    /\ Evaluated
    /\ g2out.g2.alert_only
    /\ g2out.g2.reason = <<"alert_only", "ratio_funding_hard">>

\* what main() hands on to Gate 3, the planner and the scorer: a result that
\* its test (not g2.passed) or g2.alert_only lets through
HandedOn == Evaluated /\ g2out.g2.passed /\ ~g2out.g2.alert_only

\* C29: every Gate2Result with passed=true was computed from a ready context
\* and has regime healthy_trend or crowded_squeeze and alert_only=false; a
\* neutral regime never passes and nothing passes before the series is ready;
\* so what is handed on to Gate 3, the planner and the scorer never has regime
\* neutral or confidence LOW.
C29_PassedOnlyWhenReady ==
    Evaluated =>
        /\ g2out.g2.passed =>
              /\ g2in.ready
              /\ g2out.g2.regime \in {"healthy_trend", "crowded_squeeze"}
              /\ ~g2out.g2.alert_only
        /\ g2out.g2.regime = "neutral" => ~g2out.g2.passed
        /\ ~g2in.ready => ~g2out.g2.passed
        /\ HandedOn =>
              /\ g2out.g2.regime # "neutral"
              /\ g2out.g2.confidence \in {"MED", "HIGH"}

\* a ready context with two hard guards: passed, crowded_squeeze, handed on
C29_Witness ==
    /\ HandedOn
    /\ g2in.ready
    /\ GuardsHeld >= 2
    /\ g2out.g2.regime = "crowded_squeeze"
    /\ g2out.g2.confidence = "MED"

\* the same guards before the series is ready: not passed, confidence LOW
C29_NotReadyHeldBack ==
    /\ Evaluated
    /\ ~g2in.ready
    /\ GuardsHeld >= 2
    /\ ~g2out.g2.passed
    /\ g2out.g2.confidence = "LOW"

\* calm statistics before the series is ready: neutral, LOW, not handed on
C29_NotReadyNeutral ==
    /\ Evaluated
    /\ ~g2in.ready
    /\ GuardsHeld = 0
    /\ g2out.g2.regime = "neutral"
    /\ g2out.g2.confidence = "LOW"
    /\ ~HandedOn

\* a healthy trend handed on
C29_HealthyHandedOn ==
    /\ HandedOn
    /\ g2out.g2.regime = "healthy_trend"
----------------------------------------------------------------------------
(* main(): the orchestrator loop *)

MaxTicks == 2           \* ticks explored by SpecLoop

ScanIntervalSec == 900
BackoffSec == 10

\* cfg.symbols and cfg.primary_exchange (the defaults of AppConfig.load)
CfgSymbols == <<BTCUSDT, ETHUSDT>>
Primary == Binance
Fallback == Kucoin

\* what client.fetch_derivatives_1h reports: KuCoin returns placeholders
FetchDerivatives1h(name) == IF name = Kucoin THEN ObsEmpty ELSE ObsHot

\* fetch_ohlcv raises on an HTTP error on Binance; KuCoin returns []
SnapshotOutcomes(name) == IF name = Kucoin THEN {"ok"} ELSE {"ok", "raise"}

\* gate1_htf_clarity: without candles (KuCoin) it fails closed
Gate1Results(name) ==
    IF name = Kucoin
    THEN {[passed |-> FALSE, reason |-> "insufficient_4h_candles"]}
    ELSE {[passed |-> TRUE, reason |-> "pass"],
          [passed |-> FALSE, reason |-> "no_clarity"]}

\* the derivatives contexts Gate 2 is evaluated on in the loop: alert-only,
\* not ready, ready and crowded, ready and calm, ready and neutral
LoopCtx(r, f, z, rd) ==
    [ratio_long_pct |-> r, funding |-> f, funding_z |-> None,
     funding_mean |-> None, funding_std |-> None, oi_spike_z |-> z,
     confirm4h |-> FALSE, ready |-> rd[1], history_len |-> rd[2]]
LoopGate2Inputs ==
    {LoopCtx(Some(720), Some(22), None, <<FALSE, 3>>),
     LoopCtx(Some(500), Some(5), None, <<FALSE, 3>>),
     LoopCtx(Some(720), Some(22), None, <<TRUE, 20>>),
     LoopCtx(Some(500), Some(5), Some(10), <<TRUE, 20>>),
     LoopCtx(Some(680), Some(5), Some(10), <<TRUE, 20>>)}

Gate3Results == {[passed |-> TRUE, reason |-> "pass"],
                 [passed |-> FALSE, reason |-> "no_clear_intent_htf"]}

\* build_plan_v0 returns a plan or None
PlanResults == {"plan", "None"}

\* score_signal_v1: passed, or skipped with its list of reasons
ScoreResults ==
    {[passed |-> TRUE, reasons |-> <<"crowded_squeeze_regime">>],
     [passed |-> FALSE,
      reasons |-> <<"htf_location_not_extreme", "derivatives_neutralish",
                    "no_break_flag", "zone_too_filled", "rr_borderline",
                    "tier_C_not_in_trade_set">>],
     [passed |-> FALSE, reasons |-> <<"plan_rr_missing">>]}

\* s.reasons[:6]
Take(sq, n) == IF Len(sq) <= n THEN sq ELSE SubSeq(sq, 1, n)

Ev(ev, i, ok, reason) == [ev |-> ev, sym |-> i, ok |-> ok, reason |-> reason]

\* the mutant of StageOrder: the rolling update runs only after Gate 1 passed
StageOrderG1First == <<"snapshot", "g1", "rolling", "g2", "g3", "plan", "score">>

\* the statements of the for body, in the order main() runs them
StageOrder == <<"rolling", "snapshot", "g1", "g2", "g3", "plan", "score">>

\* the first statement of a symbol's processing
FirstPc == StageOrder[1]

\* the statement that follows a stage that succeeded
PcAfter(s) ==
    StageOrder[1 + CHOOSE k \in 1..Len(StageOrder) - 1 : StageOrder[k] = s]

\* the mutant of PcNextSymbol: a rejection ends the tick
PcBreak(i) == "sleep"

\* `continue`, or the end of the for body: the next symbol, or the sleep
PcNextSymbol(i) == IF i < Len(CfgSymbols) THEN FirstPc ELSE "sleep"

\* the mutant of Journal: the record is not written
JournalDropped(jr, i, stg, reason) == jr

\* log.info("JOURNAL %s | ex=%s | stage=%s | reason=%s ...")
Journal(jr, i, stg, reason) ==
    Append(jr, [symbol |-> CfgSymbols[i], sym |-> i, stage |-> stg, reason |-> reason])

\* (not g2.passed) or bool(getattr(g2, "alert_only", False))
G2Rejects(g2) == (~g2.passed) \/ g2.alert_only

\* the mutant of PlanMissing: a missing plan is not noticed
PlanNeverMissing(plan) == FALSE

\* plan is None
PlanMissing(plan) == plan = "None"

\* symbol i is done: one JOURNAL record, then `continue` (or the end of the body)
JournalAndContinue(i, stg, reason) ==
    /\ journal' = Journal(journal, i, stg, reason)
    /\ pc' = PcNextSymbol(i)
    /\ idx' = IF i < Len(CfgSymbols) THEN i + 1 ELSE i

\* a stage of symbol i succeeded: on to the next statement
Proceed(s) ==
    /\ pc' = PcAfter(s)
    /\ UNCHANGED <<journal, idx>>

InitLoop ==
    /\ IdleRing
    /\ IdleView
    /\ IdleGate
    /\ IdlePure
    /\ pc = "get_client"
    /\ client = <<>>
    /\ idx = 0
    /\ trace = <<>>
    /\ journal = <<>>
    /\ slept = 0
    /\ ticks = 0

\* client = router.get_client(): primary if it pings, else fallback, else raise
GetClient ==
    /\ pc = "get_client"
    /\ ticks < MaxTicks
    /\ ticks' = ticks + 1
    /\ \E ping1 \in BOOLEAN, ping2 \in BOOLEAN :
          IF ping1 \/ ping2
          THEN /\ client' = IF ping1 THEN Primary ELSE Fallback
               /\ trace' = <<Ev("get_client", 0, "ok", <<>>)>>
               /\ pc' = IF Len(CfgSymbols) > 0 THEN FirstPc ELSE "sleep"
               /\ idx' = 1
          ELSE /\ trace' = <<Ev("get_client", 0, "raise", <<"no_exchange_available">>)>>
               /\ pc' = "backoff"
               /\ UNCHANGED <<client, idx>>
    /\ UNCHANGED <<journal, slept, ringVars, viewVars, gateVars, pureVars>>

\* ctx2 = deriv.get_gate2_ctx(sym, ttl_sec=30)
Rolling ==
    /\ pc = "rolling"
    /\ GetGate2Ctx(client, CfgSymbols[idx], clock, FetchDerivatives1h(client),
                   HistMaxLen, ZWindow)
    /\ trace' = Append(trace, Ev("rolling", idx, "ok", <<>>))
    /\ Proceed("rolling")
    /\ UNCHANGED <<client, slept, ticks, ncalls, clock, clockOK, viewVars, gateVars, pureVars>>

\* snap = build_snapshot(...): fetch_ohlcv may raise
Snapshot ==
    /\ pc = "snapshot"
    /\ \E out \in SnapshotOutcomes(client) :
          /\ trace' = Append(trace, Ev("snapshot", idx, out, <<>>))
          /\ IF out = "ok" THEN Proceed("snapshot")
             ELSE pc' = "backoff" /\ UNCHANGED <<journal, idx>>
    /\ UNCHANGED <<client, slept, ticks, ringVars, viewVars, gateVars, pureVars>>

\* g1 = gate1_htf_clarity(snap)
StageG1 ==
    /\ pc = "g1"
    /\ \E g1 \in Gate1Results(client) :
          /\ trace' = Append(trace, Ev("g1", idx, IF g1.passed THEN "ok" ELSE "fail",
                                   <<g1.reason>>))
          /\ IF ~g1.passed THEN JournalAndContinue(idx, "G1_FAIL", <<g1.reason>>)
             ELSE Proceed("g1")
    /\ UNCHANGED <<client, slept, ticks, ringVars, viewVars, gateVars, pureVars>>

\* g2 = gate2_derivatives_regime(snap, ctx2)
StageG2 ==
    /\ pc = "g2"
    /\ \E in \in LoopGate2Inputs :
          /\ trace' = Append(trace, Ev("g2", idx,
                                IF Gate2(in).passed /\ ~Gate2(in).alert_only
                                THEN "ok" ELSE "fail", Gate2(in).reason))
          /\ IF G2Rejects(Gate2(in)) THEN JournalAndContinue(idx, "G2_FAIL", Gate2(in).reason)
             ELSE Proceed("g2")
    /\ UNCHANGED <<client, slept, ticks, ringVars, viewVars, gateVars, pureVars>>

\* g3 = gate3_structure_confirmation_v0(snap, g1, g2)
StageG3 ==
    /\ pc = "g3"
    /\ \E g3 \in Gate3Results :
          /\ trace' = Append(trace, Ev("g3", idx, IF g3.passed THEN "ok" ELSE "fail",
                                   <<g3.reason>>))
          /\ IF ~g3.passed THEN JournalAndContinue(idx, "G3_FAIL", <<g3.reason>>)
             ELSE Proceed("g3")
    /\ UNCHANGED <<client, slept, ticks, ringVars, viewVars, gateVars, pureVars>>

\* plan = build_plan_v0(snap, g1, g2, g3, min_rr_tp2=2.5)
StagePlan ==
    /\ pc = "plan"
    /\ \E plan \in PlanResults :
          /\ trace' = Append(trace, Ev("plan", idx,
                                IF plan = "None" THEN "fail" ELSE "ok", <<>>))
          /\ IF PlanMissing(plan) THEN JournalAndContinue(idx, "PLANNER_FAIL", <<"planner_guard_fail">>)
             ELSE Proceed("plan")
    /\ UNCHANGED <<client, slept, ticks, ringVars, viewVars, gateVars, pureVars>>

\* s = score_signal_v1(...): SCORE_SKIP, or the final stage=OK record
StageScore ==
    /\ pc = "score"
    /\ \E sc \in ScoreResults :
          /\ trace' = Append(trace, Ev("score", idx, IF sc.passed THEN "ok" ELSE "fail",
                                   sc.reasons))
          /\ IF ~sc.passed THEN JournalAndContinue(idx, "SCORE_SKIP", Take(sc.reasons, 6))
             ELSE JournalAndContinue(idx, "OK", <<>>)
    /\ UNCHANGED <<client, slept, ticks, ringVars, viewVars, gateVars, pureVars>>

\* time.sleep(cfg.scan_interval_sec) at the end of the tick, then `while True`
Sleep ==
    /\ pc = "sleep"
    /\ slept' = ScanIntervalSec
    /\ pc' = "get_client"
    /\ trace' = <<>>
    /\ journal' = <<>>
    /\ \E now \in {clock, clock + BucketSec} : clock' = now
    /\ UNCHANGED <<client, idx, ticks, persist, store, ctx2, ncalls, clockOK,
                   viewVars, gateVars, pureVars>>

\* except Exception: log.exception(...); time.sleep(10), then `while True`
Backoff ==
    /\ pc = "backoff"
    /\ slept' = BackoffSec
    /\ pc' = "get_client"
    /\ trace' = <<>>
    /\ journal' = <<>>
    /\ \E now \in {clock, clock + BucketSec} : clock' = now
    /\ UNCHANGED <<client, idx, ticks, persist, store, ctx2, ncalls, clockOK,
                   viewVars, gateVars, pureVars>>

NextLoop ==
    \/ GetClient
    \/ Rolling
    \/ Snapshot
    \/ StageG1
    \/ StageG2
    \/ StageG3
    \/ StagePlan
    \/ StageScore
    \/ Sleep
    \/ Backoff

SpecLoop == InitLoop /\ [][NextLoop]_vars

Spec == SpecLoop

----------------------------------------------------------------------------
(* Properties of the orchestrator loop *)

NSym == Len(CfgSymbols)

\* the events of symbol i in the current tick, in order
EventsOf(i) == SelectSeq(trace, LAMBDA e : e.sym = i)

\* the JOURNAL records of symbol i in the current tick
RecordsOf(i) == SelectSeq(journal, LAMBDA r : r.sym = i)

HasEvent(i, ev) == \E k \in 1..Len(trace) : trace[k].sym = i /\ trace[k].ev = ev

Raised == \E k \in 1..Len(trace) : trace[k].ok = "raise"

\* the ring of symbol i on the tick's client holds a point of the current bucket
RingUpdated(i) ==
    /\ Len(RingOf(client, CfgSymbols[i])) > 0
    /\ RingOf(client, CfgSymbols[i])[Len(RingOf(client, CfgSymbols[i]))].bucket_ts
           = BucketOf(clock)

\* C5 as stated: in every tick that got a client, every configured symbol has
\* its ring updated, whatever happens to any other symbol in the tick
C5_AsStated ==
    (pc \in {"sleep", "backoff"} /\ Len(trace) > 0 /\ trace[1].ok = "ok") =>
        \A i \in 1..NSym : HasEvent(i, "rolling") /\ RingUpdated(i)

\* C5 amended: in every tick each symbol whose processing is reached has its
\* ring updated before anything else, Gate 1 included, whatever the outcome of
\* any gate, planner or scorer step of any symbol; a tick that no exception
\* interrupts updates every configured symbol
C5_RollingBeforeGate1 ==
    \A i \in 1..NSym :
        /\ \A k \in 1..Len(trace) :
              (trace[k].sym = i /\ trace[k].ev # "rolling") =>
                  \E j \in 1..k - 1 : trace[j].sym = i /\ trace[j].ev = "rolling"
        /\ HasEvent(i, "rolling") => RingUpdated(i)
        /\ Len(RecordsOf(i)) > 0 => HasEvent(i, "rolling")
        /\ (pc = "sleep" /\ ~Raised) => HasEvent(i, "rolling")

\* the first symbol was rejected by Gate 1 and the second symbol's ring is
\* updated all the same
C5_Witness ==
    /\ Len(journal) > 0
    /\ journal[1].sym = 1
    /\ journal[1].stage = "G1_FAIL"
    /\ HasEvent(2, "rolling")
    /\ RingUpdated(2)
    /\ ~HasEvent(2, "g1")

ExpectedOrder == <<"rolling", "snapshot", "g1", "g2", "g3", "plan", "score">>

\* C6: the stages of a symbol run in the order rolling update, Gate 1, Gate 2,
\* Gate 3, planner, scorer, each only if every earlier one succeeded; the
\* scorer is not invoked without a plan and stage=OK needs all stages passed
C6_StageOrder ==
    \A i \in 1..NSym :
        LET evs == EventsOf(i)
        IN /\ Len(evs) <= Len(ExpectedOrder)
           /\ \A k \in 1..Len(evs) : evs[k].ev = ExpectedOrder[k]
           /\ \A k \in 1..Len(evs) - 1 : evs[k].ok = "ok"
           /\ \A r \in 1..Len(journal) :
                 (journal[r].sym = i /\ journal[r].stage = "OK") =>
                     /\ Len(evs) = Len(ExpectedOrder)
                     /\ \A k \in 1..Len(evs) : evs[k].ok = "ok"

\* one symbol passed every stage, another had no plan and was never scored
C6_Witness ==
    /\ Len(journal) = 2
    /\ journal[1].stage = "PLANNER_FAIL"
    /\ ~HasEvent(1, "score")
    /\ journal[2].stage = "OK"
    /\ HasEvent(2, "score")

\* the JOURNAL stage of a rejection by stage ev
FailStage(ev) ==
    CASE ev = "g1" -> "G1_FAIL"
      [] ev = "g2" -> "G2_FAIL"
      [] ev = "g3" -> "G3_FAIL"
      [] ev = "plan" -> "PLANNER_FAIL"
      [] ev = "score" -> "SCORE_SKIP"

\* C7: a symbol whose processing ends in a rejection has exactly one JOURNAL
\* record in the tick, of the first failing stage and with that stage's reason
\* (planner_guard_fail for the planner); a symbol that passes all stages has
\* exactly one record, of stage OK; no other record is written
C7_OneJournalRecord ==
    \A i \in 1..NSym :
        LET evs == EventsOf(i)
            recs == RecordsOf(i)
            failed == {k \in 1..Len(evs) : evs[k].ok = "fail"}
            passedAll == Len(evs) = Len(ExpectedOrder) /\ evs[Len(evs)].ok = "ok"
        IN /\ failed # {} =>
                 LET k == CHOOSE x \in failed : \A y \in failed : x <= y
                 IN /\ Len(recs) = 1
                    /\ recs[1].symbol = CfgSymbols[i]
                    /\ recs[1].stage = FailStage(evs[k].ev)
                    /\ recs[1].reason = IF evs[k].ev = "plan"
                                        THEN <<"planner_guard_fail">>
                                        ELSE evs[k].reason
           /\ passedAll => (Len(recs) = 1 /\ recs[1].stage = "OK")
           /\ (failed = {} /\ ~passedAll) => Len(recs) = 0

\* a symbol skipped by the scorer with all six reasons, and one that passed
C7_Witness ==
    /\ pc = "sleep"
    /\ Len(journal) = 2
    /\ journal[1].stage = "SCORE_SKIP"
    /\ Len(journal[1].reason) = 6
    /\ journal[2].stage = "OK"

\* the states of the loop: a tick ends normally only after every symbol was
\* journalled, ends early only on a raised exception, and the loop goes on
C8_TickEnds ==
    /\ pc = "sleep" => (~Raised /\ \A i \in 1..NSym : Len(RecordsOf(i)) = 1)
    /\ pc = "backoff" => trace[Len(trace)].ok = "raise"
    /\ pc \in {"get_client", "rolling", "snapshot", "g1", "g2", "g3", "plan",
               "score", "sleep", "backoff"}
    /\ (pc = "get_client" /\ ticks >= MaxTicks) \/ ENABLED NextLoop

\* the steps of the loop: a rejection continues with the next symbol, or with
\* the sleep of scan_interval_sec after the last one; an exception is followed
\* by a sleep of 10 seconds; both sleeps are followed by a new tick
C8_Steps ==
    /\ Len(journal') = Len(journal) + 1 =>
          /\ pc' = IF idx < NSym THEN "rolling" ELSE "sleep"
          /\ idx < NSym => idx' = idx + 1
    /\ (pc' = "backoff" /\ pc # "backoff") => trace'[Len(trace')].ok = "raise"
    /\ (pc = "sleep" /\ pc' # "sleep") => (pc' = "get_client" /\ slept' = 900)
    /\ (pc = "backoff" /\ pc' # "backoff") => (pc' = "get_client" /\ slept' = 10)

\* C8: a rejection never ends the tick; only a raised exception does, and the
\* loop then sleeps 10 seconds and starts a new tick; the loop never terminates
C8_RejectionNeverEndsTick == []C8_TickEnds /\ [][C8_Steps]_vars

\* a tick that follows a backoff: both symbols rejected and the tick complete
C8_Witness ==
    /\ pc = "sleep"
    /\ slept = BackoffSec
    /\ ticks = 2
    /\ Len(journal) = 2
    /\ journal[1].stage = "G1_FAIL"
    /\ journal[2].stage = "G3_FAIL"

----------------------------------------------------------------------------
(* gate3_structure_confirmation_v0 *)

\* smc.zones.Zone: the fields Gate 3 and the planner read; fill_pct in hundredths
ZoneRec(kind, top, bottom, fill_pct) ==
    [kind |-> kind, top |-> top, bottom |-> bottom, fill_pct |-> fill_pct]

\* Structure1HResult: swings and break level are Optional prices
StructRec(bos, choch, swh, swl, brk) ==
    [bos |-> bos, choch |-> choch, reason |-> "na", last_swing_high |-> swh,
     last_swing_low |-> swl, break_level |-> brk]

\* models.Candle: the fields the analyses read
Bar(ts, o, h, l, c) == [ts |-> ts, o |-> o, h |-> h, l |-> l, c |-> c]

\* the sum of a list of integers
RECURSIVE SumSeq(_)
SumSeq(sq) == IF Len(sq) = 0 THEN 0 ELSE sq[1] + SumSeq(Tail(sq))

\* max(c.h - c.l, abs(c.h - p.c), abs(c.l - p.c))
TrueRange(c, p) == Max2(c.h - c.l, Max2(Abs(c.h - p.c), Abs(c.l - p.c)))

\* _atr(candles, n): None with fewer than n + 2 candles, else the mean true
\* range of the last n candles, kept as the sum and n
Atr(candles, n) ==
    IF Len(candles) < n + 2 THEN None
    ELSE Some([sum |-> SumSeq([k \in 1..n |->
                                  TrueRange(candles[Len(candles) - n + k],
                                            candles[Len(candles) - n + k - 1])]),
               n |-> n])

AtrN == 14

\* body >= mult * a, mult in tenths
BodyAtLeast(bar, a, mult) == Abs(bar.c - bar.o) * 10 * a.n >= mult * a.sum

\* the mutant of HasDisplacement: any last bar of a long enough series counts
HasDisplacementAnyBody(candles, mult) ==
    Atr(candles, AtrN) # None /\ Val(Atr(candles, AtrN)).sum > 0

\* _has_displacement: last candle body >= atr_mult * ATR(14)
HasDisplacement(candles, mult) ==
    /\ Atr(candles, AtrN) # None
    /\ Val(Atr(candles, AtrN)).sum > 0
    /\ BodyAtLeast(candles[Len(candles)], Val(Atr(candles, AtrN)), mult)

\* _displacement_against_crowd_1h: at least 20 candles, displacement on the
\* last candle, its direction against the crowded side
DisplacementAgainstCrowd1H(candles, ratio_skew, mult) ==
    /\ Len(candles) >= 20
    /\ HasDisplacement(candles, mult)
    /\ IF ratio_skew = "LONG" THEN candles[Len(candles)].c < candles[Len(candles)].o
       ELSE IF ratio_skew = "SHORT"
            THEN candles[Len(candles)].c > candles[Len(candles)].o
       ELSE FALSE

\* _sweep_external_1h: the last candle wicks beyond the level and closes back
SweepExternal1H(candles, level, side) ==
    /\ Len(candles) > 0
    /\ level # None
    /\ IF side = "ABOVE"
       THEN candles[Len(candles)].h > Val(level) /\ candles[Len(candles)].c < Val(level)
       ELSE candles[Len(candles)].l < Val(level) /\ candles[Len(candles)].c > Val(level)

\* SwingPoint
SwingPoint(ts, price, kind) == [ts |-> ts, price |-> price, kind |-> kind]

\* the swings candle i contributes: a high if its h is the maximum of the
\* window [i - left, i + right], then a low if its l is the minimum
SwingsAt(candles, i, left, right) ==
    LET w == (i - left)..(i + right)
    IN (IF \A k \in w : candles[k].h <= candles[i].h
        THEN <<SwingPoint(candles[i].ts, candles[i].h, "H")>> ELSE <<>>)
       \o (IF \A k \in w : candles[k].l >= candles[i].l
           THEN <<SwingPoint(candles[i].ts, candles[i].l, "L")>> ELSE <<>>)

RECURSIVE SwingsFrom(_, _, _, _)
SwingsFrom(candles, i, left, right) ==
    IF i > Len(candles) - right THEN <<>>
    ELSE SwingsAt(candles, i, left, right) \o SwingsFrom(candles, i + 1, left, right)

\* the de-dup pass: the first swing of each (ts, kind) is kept
DedupSwings(swings) ==
    LET keep == {k \in 1..Len(swings) :
                    \A j \in 1..(k - 1) :
                        ~(swings[j].ts = swings[k].ts /\ swings[j].kind = swings[k].kind)}
    IN SelectSeq([k \in 1..Len(swings) |-> [s |-> swings[k], keep |-> k \in keep]],
                 LAMBDA e : e.keep)

\* _fractal_swings(candles, left, right)
FractalSwings(candles, left, right) ==
    IF Len(candles) < left + right + 5 THEN <<>>
    ELSE LET d == DedupSwings(SwingsFrom(candles, left + 1, left, right))
         IN [k \in 1..Len(d) |-> d[k].s]

OfKind(swings, kind) == SelectSeq(swings, LAMBDA x : x.kind = kind)

\* _infer_trend
InferTrend(swings) ==
    LET highs == OfKind(swings, "H")
        lows == OfKind(swings, "L")
    IN IF Len(highs) < 2 \/ Len(lows) < 2 THEN "unknown"
       ELSE LET h1 == highs[Len(highs) - 1]
                h2 == highs[Len(highs)]
                l1 == lows[Len(lows) - 1]
                l2 == lows[Len(lows)]
            IN IF h2.price > h1.price /\ l2.price > l1.price THEN "up"
               ELSE IF h2.price < h1.price /\ l2.price < l1.price THEN "down"
               ELSE "range"

\* Structure1HResult; the swings are kept as Optional prices
Structure(trend, swh, swl, bos, choch, brk, reason) ==
    [trend |-> trend, last_swing_high |-> swh, last_swing_low |-> swl, bos |-> bos,
     choch |-> choch, break_level |-> brk, reason |-> reason]

MinCandles1H == 30
MinSwings == 6

\* the mutant of BreakOf: a close beyond either swing sets both flags
BreakOfBothFlags(trend, px, hi, lo) ==
    IF trend \in {"up", "down"} /\ (px > hi \/ px < lo)
    THEN [bos |-> TRUE, choch |-> TRUE, brk |-> Some(IF px > hi THEN hi ELSE lo),
          reason |-> "bos_up_close_break"]
    ELSE [bos |-> FALSE, choch |-> FALSE, brk |-> None, reason |-> "no_break"]

\* the break decision of analyze_structure_1h, l.136-159
BreakOf(trend, px, hi, lo) ==
    IF trend = "up"
    THEN IF px > hi THEN [bos |-> TRUE, choch |-> FALSE, brk |-> Some(hi),
                          reason |-> "bos_up_close_break"]
         ELSE IF px < lo THEN [bos |-> FALSE, choch |-> TRUE, brk |-> Some(lo),
                               reason |-> "choch_down_close_break"]
         ELSE [bos |-> FALSE, choch |-> FALSE, brk |-> None, reason |-> "no_break"]
    ELSE IF trend = "down"
    THEN IF px < lo THEN [bos |-> TRUE, choch |-> FALSE, brk |-> Some(lo),
                          reason |-> "bos_down_close_break"]
         ELSE IF px > hi THEN [bos |-> FALSE, choch |-> TRUE, brk |-> Some(hi),
                               reason |-> "choch_up_close_break"]
         ELSE [bos |-> FALSE, choch |-> FALSE, brk |-> None, reason |-> "no_break"]
    ELSE [bos |-> FALSE, choch |-> FALSE, brk |-> None, reason |-> "range_no_signal"]

\* analyze_structure_1h(candles_1h, close_confirm=True)
AnalyzeStructure1H(candles) ==
    IF Len(candles) < MinCandles1H
    THEN Structure("unknown", None, None, FALSE, FALSE, None, "insufficient_1h_candles")
    ELSE LET swings == FractalSwings(candles, 2, 2)
             highs == OfKind(swings, "H")
             lows == OfKind(swings, "L")
         IN IF Len(swings) < MinSwings
            THEN Structure("unknown", None, None, FALSE, FALSE, None,
                           "insufficient_swings")
            ELSE IF Len(highs) = 0 \/ Len(lows) = 0
            THEN Structure("unknown",
                           IF Len(highs) = 0 THEN None ELSE Some(highs[Len(highs)].price),
                           IF Len(lows) = 0 THEN None ELSE Some(lows[Len(lows)].price),
                           FALSE, FALSE, None, "missing_last_swing")
            ELSE LET hi == highs[Len(highs)].price
                     lo == lows[Len(lows)].price
                     b == BreakOf(InferTrend(swings), candles[Len(candles)].c, hi, lo)
                 IN Structure(InferTrend(swings), Some(hi), Some(lo), b.bos, b.choch,
                              b.brk, b.reason)

\* _confirm_mode
ConfirmMode(g2) == IF g2.regime = "crowded_squeeze" THEN "squeeze" ELSE "trend"

\* _pick_micro_mode: "continu" in hint -> mode2, else mode1
PickMicroMode(g2) ==
    IF g2.directional_bias_hint = "continuation_preferred" THEN "mode2" ELSE "mode1"

\* the mutant of PickIntent: the bias alone gives the intent
PickIntentBiasOnly(g1) ==
    IF g1.bias = "up" THEN "LONG" ELSE IF g1.bias = "down" THEN "SHORT" ELSE "None"

\* _pick_intent
PickIntent(g1) ==
    IF g1.loc = "mid" THEN "None"
    ELSE IF g1.bias = "up" /\ g1.loc = "discount" THEN "LONG"
    ELSE IF g1.bias = "down" /\ g1.loc = "premium" THEN "SHORT"
    ELSE "None"

\* the filter of _pick_zone: some thickness, not deeply filled, the wanted kind
ZoneUsable(z, intent) ==
    /\ Abs(z.top - z.bottom) > 0
    /\ ~(z.fill_pct > 55)
    /\ z.kind = (IF intent = "LONG" THEN "FVG_BULL" ELSE "FVG_BEAR")

\* _pick_zone: the first zone of the list that passes the filter
PickZone(zones, intent) ==
    LET filt == SelectSeq(zones, LAMBDA z : ZoneUsable(z, intent))
    IN IF Len(filt) = 0 THEN None ELSE Some(filt[1])

\* _tp2_from_gate1
Tp2FromGate1(g1, intent) == IF intent = "LONG" THEN g1.liq_above ELSE g1.liq_below

\* the tp2 candidate of a passing result: Gate 1 liquidity, else the 1H swing
Tp2Candidate(in, intent) ==
    IF IsNum(Tp2FromGate1(in.g1, intent)) THEN Tp2FromGate1(in.g1, intent)
    ELSE IF intent = "LONG" THEN AnalyzeStructure1H(in.candles_1h).last_swing_high
    ELSE AnalyzeStructure1H(in.candles_1h).last_swing_low

G3Result(in, passed, reason, zone, tp2, intent) ==
    [passed |-> passed, reason |-> reason,
     structure |-> AnalyzeStructure1H(in.candles_1h),
     zone |-> zone, tp2_candidate |-> tp2, intent |-> intent]

\* the mutant of Gate2NotTradeEligible: alert_only is not looked at
Gate2NotPassedOnly(g2) == ~g2.passed

\* (not g2.passed) or getattr(g2, "alert_only", False)
Gate2NotTradeEligible(g2) == (~g2.passed) \/ g2.alert_only

\* the sweep the squeeze mode looks for, on the crowded side
SweepOk(in) ==
    IF in.g2.ratio_skew = "LONG"
    THEN SweepExternal1H(in.candles_1h, in.g1.liq_above, "ABOVE")
    ELSE IF in.g2.ratio_skew = "SHORT"
    THEN SweepExternal1H(in.candles_1h, in.g1.liq_below, "BELOW")
    ELSE FALSE

DispMult == 8

\* mode-specific confirmation: the trigger that confirmed, or the rejection
\* reason
Confirmation(in) ==
    LET structure == AnalyzeStructure1H(in.candles_1h)
        disp_any == HasDisplacement(in.candles_1h, DispMult)
        disp_against == DisplacementAgainstCrowd1H(in.candles_1h, in.g2.ratio_skew,
                                                   DispMult)
    IN IF ConfirmMode(in.g2) = "trend"
       THEN IF ~(structure.bos \/ structure.choch)
            THEN [ok |-> FALSE, reason |-> <<"struct_no_break", structure.reason>>]
            ELSE IF ~disp_any THEN [ok |-> FALSE, reason |-> <<"no_displacement_1h">>]
            ELSE [ok |-> TRUE, trigger |-> "bos_or_choch+disp"]
       ELSE IF structure.choch /\ disp_any THEN [ok |-> TRUE, trigger |-> "choch+disp"]
            ELSE IF SweepOk(in) /\ disp_against
            THEN [ok |-> TRUE, trigger |-> "sweep_external+disp_against_crowd"]
            ELSE [ok |-> FALSE, reason |-> <<"squeeze_no_trigger">>]

\* micro-confirm on 15m: mode1 in squeeze mode, else by the directional hint
MicroOk(in) ==
    LET micro_mode == IF ConfirmMode(in.g2) = "squeeze" THEN "mode1"
                      ELSE PickMicroMode(in.g2)
    IN IF micro_mode = "mode2" THEN in.micro2_ok ELSE in.micro1_ok

\* a result with the trigger its notes record ("n/a" before the trigger step)
WithTrigger(r, trigger) == [x \in DOMAIN r \cup {"trigger"} |->
                               IF x = "trigger" THEN trigger ELSE r[x]]

\* gate3_structure_confirmation_v0(snapshot, g1, g2); the 15m analyses it calls
\* (zones, micro-confirm) are fields of `in`
Gate3(in) ==
    IF ~in.g1.passed
    THEN WithTrigger(G3Result(in, FALSE, <<"gate1_fail">>, None, None, "None"), "n/a")
    ELSE IF Gate2NotTradeEligible(in.g2)
    THEN WithTrigger(G3Result(in, FALSE, <<"gate2_not_trade_eligible">>, None, None,
                              "None"), "n/a")
    ELSE IF PickIntent(in.g1) = "None"
    THEN WithTrigger(G3Result(in, FALSE, <<"no_clear_intent_htf">>, None, None, "None"),
                     "n/a")
    ELSE IF ~Confirmation(in).ok
    THEN WithTrigger(G3Result(in, FALSE, Confirmation(in).reason, None, None,
                              PickIntent(in.g1)), "n/a")
    ELSE IF PickZone(in.zones, PickIntent(in.g1)) = None
    THEN WithTrigger(G3Result(in, FALSE, <<"no_valid_zone_15m_directional">>, None, None,
                              PickIntent(in.g1)), Confirmation(in).trigger)
    ELSE IF ~MicroOk(in)
    THEN WithTrigger(G3Result(in, FALSE, <<"micro_confirm_fail">>,
                              PickZone(in.zones, PickIntent(in.g1)), None,
                              PickIntent(in.g1)), Confirmation(in).trigger)
    ELSE WithTrigger(G3Result(in, TRUE, <<"pass">>, PickZone(in.zones, PickIntent(in.g1)),
                              Tp2Candidate(in, PickIntent(in.g1)), PickIntent(in.g1)),
                     Confirmation(in).trigger)

----------------------------------------------------------------------------
(* build_plan_v0 *)

\* The planner's prices are kept exact: an input price x is the integer x, and
\* every price the planner computes is held in units of 1/PriceScale, so that
\* zone mid = (top + bot) / 2.0, zone_h * 0.15 and atr15 * 0.25 are integers.
PriceScale == 40

\* min_rr_tp2 = 2.5, in tenths (main() passes 2.5 as well)
MinRrTp2 == 25

\* _mark: the first positive of mark_price, mark, last_price (a MarketSnapshot
\* has only mark_price), else the close of the last 15m candle
Mark(snap) ==
    IF IsNum(snap.mark_price) /\ Val(snap.mark_price) > 0 THEN snap.mark_price
    ELSE snap.last_close_15m

\* _norm_zone: (top, bot, mid), in scaled units
NormZone(zone) ==
    LET top == Max2(zone.top, zone.bottom)
        bot == Min2(zone.top, zone.bottom)
    IN [top |-> PriceScale * top, bot |-> PriceScale * bot,
        mid |-> (PriceScale \div 2) * (top + bot)]

\* _rr: None when the risk is (within 1e-12 of) zero, else the ratio
\* |tp - entry| / |entry - sl|, kept as numerator and denominator
Rr(entry, sl, tp) ==
    IF Abs(entry - sl) = 0 THEN None
    ELSE Some([num |-> Abs(tp - entry), den |-> Abs(entry - sl)])

\* rr is not None and rr >= min_rr (min_rr in tenths)
RrAtLeast(rr, min_rr) == IsNum(rr) /\ Val(rr).num * 10 >= min_rr * Val(rr).den

\* the mutant of RrOk: only the RR from entry1 qualifies a plan
RrOkEntry1Only(rr1, rr2, min_rr) == RrAtLeast(rr1, min_rr)

\* rr_ok_entry1 or rr_ok_entry2
RrOk(rr1, rr2, min_rr) == RrAtLeast(rr1, min_rr) \/ RrAtLeast(rr2, min_rr)

\* the first n items of a list: out[:n]
FirstN(sq, n) == IF Len(sq) <= n THEN sq ELSE SubSeq(sq, 1, n)

\* a list back to front
Reversed(sq) == [i \in 1..Len(sq) |-> sq[Len(sq) + 1 - i]]

\* the mutant of NextLiqLevels: the farthest levels beyond ref are taken
FarthestLiqLevels(levels, ref, intent, k) ==
    LET lv == {Val(levels[i]) : i \in {j \in 1..Len(levels) : IsNum(levels[j])}}
    IN IF intent = "LONG"
       THEN FirstN(Reversed(SortedSeq({x \in lv : x > ref})), k)
       ELSE FirstN(SortedSeq({x \in lv : x < ref}), k)

\* _next_liq_levels: the k nearest distinct levels strictly beyond ref, going
\* away from it
NextLiqLevels(levels, ref, intent, k) ==
    LET lv == {Val(levels[i]) : i \in {j \in 1..Len(levels) : IsNum(levels[j])}}
    IN IF intent = "LONG"
       THEN FirstN(SortedSeq({x \in lv : x > ref}), k)
       ELSE FirstN(Reversed(SortedSeq({x \in lv : x < ref})), k)

TPLevel(i, price, reason) == [name |-> <<"TP", i>>, price |-> price, reason |-> reason]

\* the stop: beyond the far edge of the zone by max(zone_h * 0.15, atr15 * 0.25,
\* 1e-12); the 1e-12 floor is below the resolution of the scaled prices and reads 0
StopLoss(z, atr15, intent) ==
    LET pad_zone == ((z.top - z.bot) * 15) \div 100
        pad_atr == IF IsNum(atr15) /\ Val(atr15) > 0
                   THEN (PriceScale * Val(atr15) * 25) \div 100 ELSE 0
        pad == Max2(pad_zone, pad_atr)
    IN IF intent = "LONG" THEN z.bot - pad ELSE z.top + pad

\* TP1 from the 1H structure: the last swing beyond entry1, else the break level
\* beyond entry1, else 1R; <<price, reason>>
Tp1FromStructure(struct, entry1, risk, intent) ==
    LET sw == IF intent = "LONG" THEN struct.last_swing_high ELSE struct.last_swing_low
        beyond(x) == IF intent = "LONG" THEN PriceScale * x > entry1
                     ELSE PriceScale * x < entry1
    IN IF IsNum(sw) /\ beyond(Val(sw))
       THEN <<PriceScale * Val(sw),
              IF intent = "LONG" THEN "1h_last_swing_high" ELSE "1h_last_swing_low">>
       ELSE IF IsNum(struct.break_level) /\ beyond(Val(struct.break_level))
       THEN <<PriceScale * Val(struct.break_level), "1h_break_level">>
       ELSE <<IF intent = "LONG" THEN entry1 + risk ELSE entry1 - risk, "fallback_1R">>

\* tp ordering sanity: TP1 not before TP2 is replaced by 1R
Tp1Adjusted(tp1, tp2, entry1, risk, intent) ==
    IF intent = "LONG" /\ ~(tp1[1] < tp2)
    THEN <<entry1 + risk, "adjust_tp1_to_1R_for_monotonic">>
    ELSE IF intent = "SHORT" /\ ~(tp1[1] > tp2)
    THEN <<entry1 - risk, "adjust_tp1_to_1R_for_monotonic">>
    ELSE tp1

\* while len(tps) < 5: append TP{k+1} at (2.0 + (k - 2)) R from entry1
RECURSIVE PadWithR(_, _, _, _)
PadWithR(tps, entry1, risk, intent) ==
    IF Len(tps) >= 5 THEN tps
    ELSE LET k == Len(tps)
             mult == 2 + (k - 2)
             px == IF intent = "LONG" THEN entry1 + mult * risk
                   ELSE entry1 - mult * risk
         IN PadWithR(Append(tps, TPLevel(k + 1, px, <<"fallback_R", mult>>)),
                     entry1, risk, intent)

\* the ladder: TP1, TP2, then the next liquidity levels beyond TP2 as TP3..,
\* padded with R-multiples, cut to five
Ladder(tp1, tp2, next_lv, entry1, risk, intent) ==
    LET liq == [i \in 1..Len(next_lv) |->
                   TPLevel(i + 2, PriceScale * next_lv[i], "4h_swing_liq_ladder")]
        tps == <<TPLevel(1, tp1[1], tp1[2]),
                 TPLevel(2, tp2, "gate1_liq_or_struct_fallback")>> \o liq
    IN FirstN(PadWithR(tps, entry1, risk, intent), 5)

\* build_plan_v0(snapshot, g1, g2, g3, min_rr_tp2): None, or Some(TradePlan);
\* snap carries what the planner reads off the snapshot (mark_price, the close
\* of the last 15m candle, ATR(15m, 14)), liq is g1.liq
BuildPlanV0(snap, liq, g3, min_rr_tp2) ==
    IF ~g3.passed THEN None
    ELSE IF g3.intent \notin {"LONG", "SHORT"} THEN None
    ELSE IF g3.zone = None THEN None
    ELSE IF ~IsNum(g3.tp2_candidate) THEN None
    ELSE IF ~IsNum(Mark(snap)) \/ Val(Mark(snap)) <= 0 THEN None
    ELSE
      LET intent == g3.intent
          z == NormZone(Val(g3.zone))
          entry1 == z.mid
          entry2 == IF intent = "LONG" THEN z.bot ELSE z.top
          sl == StopLoss(z, snap.atr15, intent)
          risk_per_unit == Abs(entry1 - sl)
          tp2 == PriceScale * Val(g3.tp2_candidate)
          tp1 == Tp1Adjusted(Tp1FromStructure(g3.structure, entry1, risk_per_unit, intent),
                             tp2, entry1, risk_per_unit, intent)
          ladder_src == IF intent = "LONG" THEN liq.swing_highs ELSE liq.swing_lows
          next_lv == NextLiqLevels(ladder_src, Val(g3.tp2_candidate), intent, 3)
          rr_tp2 == Rr(entry1, sl, tp2)
          rr_tp2_entry2 == Rr(entry2, sl, tp2)
      IN IF risk_per_unit = 0 THEN None
         ELSE IF ~RrOk(rr_tp2, rr_tp2_entry2, min_rr_tp2) THEN None
         ELSE Some([intent |-> intent, entry1 |-> entry1, entry2 |-> entry2,
                    sl |-> sl,
                    tps |-> Ladder(tp1, tp2, next_lv, entry1, risk_per_unit, intent),
                    rr_tp2 |-> rr_tp2, rr_tp2_entry2 |-> rr_tp2_entry2,
                    risk_per_unit |-> risk_per_unit,
                    mark |-> PriceScale * Val(Mark(snap))])

----------------------------------------------------------------------------
(* SpecGate3: Gate 3 over any Gate 1 / Gate 2 results, then the planner *)

NoG3 == [passed |-> FALSE, reason |-> <<>>]
NotCalled == [called |-> FALSE]

G1Inputs ==
    {[passed |-> p, bias |-> bl[1], loc |-> bl[2], liq_above |-> Some(130),
      liq_below |-> Some(80)] :
        p \in BOOLEAN,
        bl \in {<<b, l>> : b \in {"up", "down", "range"},
                           l \in {"discount", "premium", "mid"}}}

\* any Gate2Result: the fields Gate 3 reads
G2Inputs ==
    {[passed |-> p, alert_only |-> a, regime |-> rg, ratio_skew |-> sk,
      directional_bias_hint |-> DirectionalHint(rg, sk)] :
        p \in BOOLEAN, a \in BOOLEAN,
        rg \in {"healthy_trend", "crowded_squeeze"},
        sk \in {"LONG", "SHORT", "None"}}

ZoneBull == ZoneRec("FVG_BULL", 110, 100, 10)
ZoneBear == ZoneRec("FVG_BEAR", 110, 100, 10)
ZoneBullFilled == ZoneRec("FVG_BULL", 110, 100, 60)

ZoneLists == {<<>>, <<ZoneBullFilled, ZoneBear, ZoneBull>>, <<ZoneBullFilled>>}

\* 1H candle series: a flat run at 100 (h 102, l 98), a tail of eight bars at the
\* given levels, and the last bar
FlatBar(i, lv) == Bar(i, lv, lv + 2, lv - 2, lv)

Series1H(n, tail, last) ==
    [i \in 1..n |->
        IF i = n THEN Bar(n, last[1], last[2], last[3], last[4])
        ELSE IF i >= n - Len(tail) THEN FlatBar(i, tail[i - (n - Len(tail)) + 1])
        ELSE FlatBar(i, 100)]

\* tails leaving a 1H up trend, down trend and range (last swing high / low:
\* 108 / 95, 108 / 95, 105 / 92)
TailUp == <<100, 94, 97, 97, 100, 106, 97, 100>>
TailDown == <<100, 109, 97, 103, 106, 100, 97, 94>>
TailRange == <<97, 106, 94, 100, 94, 103, 103, 103>>

\* last bars (o, h, l, c): quiet; a close above the swing high with a large
\* and with a small body; a close below the swing lows with a large body; a
\* wick above 130 closing back with a large bearish and with a large bullish
\* body; a wick below 80 closing back with a large bullish body
LastBars ==
    {<<100, 102, 98, 100>>, <<100, 112, 99, 111>>, <<108, 110, 107, 109>>,
     <<100, 101, 89, 90>>, <<110, 131, 99, 100>>, <<95, 131, 94, 105>>,
     <<90, 101, 79, 100>>}

\* a 1H series is given by its length, tail and last bar
Candles1HInputs ==
    {[n |-> 30, tail |-> t, last |-> lb] :
        t \in {TailUp, TailDown, TailRange}, lb \in LastBars}
        \cup {[n |-> n, tail |-> <<>>, last |-> lb] : n \in {16, 20}, lb \in LastBars}

Gate3Inputs ==
    {[g1 |-> g1, g2 |-> g2, candles_1h |-> cs,
      zones |-> zs, micro1_ok |-> m, micro2_ok |-> m] :
        g1 \in G1Inputs, g2 \in G2Inputs, cs \in Candles1HInputs,
        zs \in ZoneLists, m \in BOOLEAN}

\* a snapshot and Gate 1 liquidity under which a passing Gate 3 result gets a plan
PlanInEasy ==
    [snap |-> [mark_price |-> Some(120), last_close_15m |-> None, atr15 |-> None],
     liq |-> [swing_highs |-> <<>>, swing_lows |-> <<>>]]

InitGate3 ==
    /\ g3in \in Gate3Inputs
    /\ g3out = NoG3
    /\ planIn = PlanInEasy
    /\ planOut = NotCalled
    /\ scoreIn = <<>>
    /\ scoreOut = <<>>
    /\ normIn = <<>>
    /\ normOut = <<>>
    /\ fnIn = <<>>
    /\ fnOut = <<>>
    /\ IdleRing
    /\ IdleView
    /\ IdleGate
    /\ IdleLoop

\* snapshot.candles_1h of the input, and the arguments of the call
G3Candles == Series1H(g3in.candles_1h.n, g3in.candles_1h.tail, g3in.candles_1h.last)
G3Args == [g3in EXCEPT !.candles_1h = G3Candles]

\* g3 = gate3_structure_confirmation_v0(snap, g1, g2)
EvalGate3 ==
    /\ g3in # <<>>
    /\ g3out = NoG3
    /\ g3out' = Gate3(G3Args)
    /\ UNCHANGED <<g3in, planIn, planOut, scoreIn, scoreOut, normIn, normOut, fnIn,
                   fnOut,
                   ringVars, viewVars, gateVars, loopVars>>

\* plan = build_plan_v0(snap, g1, g2, g3, min_rr_tp2=2.5)
BuildPlan ==
    /\ g3out # NoG3
    /\ planOut = NotCalled
    /\ planOut' = [called |-> TRUE,
                   plan |-> BuildPlanV0(planIn.snap, planIn.liq, g3out, MinRrTp2)]
    /\ UNCHANGED <<g3in, g3out, planIn, scoreIn, scoreOut, normIn, normOut, fnIn,
                   fnOut,
                   ringVars, viewVars, gateVars, loopVars>>

NextGate3 == EvalGate3 \/ BuildPlan

SpecGate3 == InitGate3 /\ [][NextGate3]_vars

G3Evaluated == g3in # <<>> /\ g3out # NoG3

\* C13: Gate 3 passes only if Gate 1 passed and Gate 2 passed and is not
\* alert-only; a failed Gate 1 gives gate1_fail; a Gate 2 result that is not
\* passed or is alert-only gives gate2_not_trade_eligible with no zone and no
\* tp2 candidate, and the planner then returns no plan
C13_Gate3NeedsGate1AndGate2 ==
    G3Evaluated =>
        /\ g3out.passed =>
              (g3in.g1.passed /\ g3in.g2.passed /\ ~g3in.g2.alert_only)
        /\ ~g3in.g1.passed => g3out.reason = <<"gate1_fail">>
        /\ (g3in.g1.passed /\ (~g3in.g2.passed \/ g3in.g2.alert_only)) =>
              /\ g3out.reason = <<"gate2_not_trade_eligible">>
              /\ g3out.zone = None
              /\ g3out.tp2_candidate = None
        /\ (planOut.called /\ (~g3in.g1.passed \/ ~g3in.g2.passed \/ g3in.g2.alert_only))
              => planOut.plan = None

\* Gate 1 passed, Gate 2 is an alert-only crowded squeeze, everything else would
\* confirm: Gate 3 short-circuits and the planner, once called, has no plan
C13_Witness ==
    /\ G3Evaluated
    /\ g3in.g1.passed
    /\ g3in.g2.alert_only
    /\ g3in.g2.passed
    /\ g3out.structure.choch
    /\ HasDisplacement(G3Candles, DispMult)
    /\ g3in.micro1_ok
    /\ Len(g3in.zones) = 3
    /\ PickIntent(g3in.g1) = "LONG"
    /\ g3out.reason = <<"gate2_not_trade_eligible">>
    /\ planOut.called
    /\ planOut.plan = None

\* the same inputs with a trade-eligible Gate 2: Gate 3 passes and a plan follows
C13_PassReached ==
    /\ G3Evaluated
    /\ g3out.passed
    /\ planOut.called
    /\ planOut.plan # None

\* Gate 3 got past the Gate 1 and Gate 2 checks
G3PastGates ==
    G3Evaluated /\ g3in.g1.passed /\ g3in.g2.passed /\ ~g3in.g2.alert_only

\* C21: the intent comes from Gate 1 alone: LONG exactly for (up, discount),
\* SHORT exactly for (down, premium); every other (bias, location) pair is
\* rejected as no_clear_intent_htf whatever the trigger, zone and micro-confirm
\* inputs are
C21_IntentFromGate1 ==
    G3PastGates =>
        /\ g3out.intent = "LONG"
              <=> (g3in.g1.bias = "up" /\ g3in.g1.loc = "discount")
        /\ g3out.intent = "SHORT"
              <=> (g3in.g1.bias = "down" /\ g3in.g1.loc = "premium")
        /\ g3out.intent \in {"LONG", "SHORT", "None"}
        /\ g3out.intent = "None" =>
              /\ ~g3out.passed
              /\ g3out.reason = <<"no_clear_intent_htf">>
              /\ g3out.zone = None
              /\ g3out.tp2_candidate = None
        /\ g3out.intent # "None" => g3out.reason # <<"no_clear_intent_htf">>

\* bias up at a premium location, every later check would confirm: rejected
\* as no_clear_intent_htf
C21_Witness ==
    /\ G3PastGates
    /\ g3in.g1.bias = "up"
    /\ g3in.g1.loc = "premium"
    /\ g3out.structure.choch
    /\ HasDisplacement(G3Candles, DispMult)
    /\ g3in.micro1_ok
    /\ Len(g3in.zones) = 3
    /\ g3out.reason = <<"no_clear_intent_htf">>

\* a range bias with no break and no usable zone is still no_clear_intent_htf,
\* not a trigger or zone reason
C21_RangeBeforeTrigger ==
    /\ G3PastGates
    /\ g3in.g1.bias = "range"
    /\ ~g3out.structure.bos
    /\ ~g3out.structure.choch
    /\ g3in.zones = <<>>
    /\ g3out.reason = <<"no_clear_intent_htf">>

\* Gate 3 got past the intent check, and past the trigger step
G3PastIntent == G3PastGates /\ PickIntent(g3in.g1) # "None"
G3PastTrigger == G3PastIntent /\ g3out.trigger # "n/a"

\* the last 1H bar, and whether its body is at least 0.8 * ATR(14)
Last1H == G3Candles[Len(G3Candles)]
BigBody1H ==
    /\ g3in.candles_1h.n >= AtrN + 2
    /\ LET a == Val(Atr(G3Candles, AtrN))
       IN a.sum > 0 /\ Abs(Last1H.c - Last1H.o) * 10 * AtrN >= 8 * a.sum

\* the last 1H bar sweeps the crowd-side level and moves against the crowd
SweepAgainstCrowd ==
    \/ /\ g3in.g2.ratio_skew = "LONG"
       /\ Last1H.h > Val(g3in.g1.liq_above) /\ Last1H.c < Val(g3in.g1.liq_above)
       /\ Last1H.c < Last1H.o
    \/ /\ g3in.g2.ratio_skew = "SHORT"
       /\ Last1H.l < Val(g3in.g1.liq_below) /\ Last1H.c > Val(g3in.g1.liq_below)
       /\ Last1H.c > Last1H.o

\* C22: squeeze mode exactly under regime crowded_squeeze, trend mode otherwise.
\* Trend mode gets past the trigger step only with BOS or CHoCH and a last 1H
\* body >= 0.8 ATR(14); squeeze mode only with CHoCH and displacement, or with
\* a sweep of the crowd-side level and a body >= 0.8 ATR against the crowd, the
\* latter recorded as sweep_external+disp_against_crowd; otherwise the reason
\* is struct_no_break_*, no_displacement_1h or squeeze_no_trigger
C22_TriggerByMode ==
    G3PastIntent =>
        LET st == g3out.structure
        IN IF g3in.g2.regime = "crowded_squeeze"
           THEN /\ G3PastTrigger =>
                      /\ (st.choch /\ BigBody1H) \/ (SweepAgainstCrowd /\ BigBody1H)
                      /\ g3out.trigger = (IF st.choch /\ BigBody1H THEN "choch+disp"
                                          ELSE "sweep_external+disp_against_crowd")
                /\ ~G3PastTrigger => g3out.reason = <<"squeeze_no_trigger">>
                /\ ((st.choch /\ BigBody1H)
                       \/ (SweepAgainstCrowd /\ BigBody1H /\ g3in.candles_1h.n >= 20))
                      => G3PastTrigger
           ELSE /\ G3PastTrigger <=> ((st.bos \/ st.choch) /\ BigBody1H)
                /\ G3PastTrigger => g3out.trigger = "bos_or_choch+disp"
                /\ ~(st.bos \/ st.choch) =>
                      g3out.reason = <<"struct_no_break", st.reason>>
                /\ ((st.bos \/ st.choch) /\ ~BigBody1H) =>
                      g3out.reason = <<"no_displacement_1h">>

\* squeeze mode, crowd long: the last 1H bar wicks above liquidity_above (130),
\* closes below it with a bearish body >= 0.8 ATR, no CHoCH: Gate 3 passes with
\* trigger sweep_external+disp_against_crowd
C22_Witness ==
    /\ G3PastTrigger
    /\ g3in.g2.regime = "crowded_squeeze"
    /\ g3in.g2.ratio_skew = "LONG"
    /\ ~g3out.structure.choch
    /\ Last1H.h > 130 /\ Last1H.c < 130 /\ Last1H.c < Last1H.o
    /\ g3out.passed
    /\ g3out.trigger = "sweep_external+disp_against_crowd"

\* trend mode: a close above the last swing high with a small body is rejected
\* as no_displacement_1h
C22_BreakWithoutDisplacement ==
    /\ G3PastIntent
    /\ g3in.g2.regime = "healthy_trend"
    /\ g3out.structure.bos
    /\ ~BigBody1H
    /\ g3out.reason = <<"no_displacement_1h">>

\* squeeze mode with 16 candles: a sweep with a large body against the crowd is
\* still squeeze_no_trigger, the against-the-crowd test wanting 20 candles
C22_SweepWithFewCandles ==
    /\ G3PastIntent
    /\ g3in.g2.regime = "crowded_squeeze"
    /\ SweepAgainstCrowd /\ BigBody1H
    /\ g3in.candles_1h.n < 20
    /\ g3out.reason = <<"squeeze_no_trigger">>

----------------------------------------------------------------------------
(* SpecPlan: build_plan_v0 over any Gate3Result, snapshot and Gate 1 liquidity *)

PlanZones == {None, Some(ZoneRec("FVG_BULL", 110, 100, 10)),
              Some(ZoneRec("FVG_BULL", 100, 110, 10)),
              Some(ZoneRec("FVG_BULL", 100, 100, 0))}

Tp2Inputs == {None, Some(80), Some(95), Some(96), Some(104), Some(105),
              Some(122), Some(130)}

PlanStructs ==
    {StructRec(FALSE, TRUE, swh, swl, brk) :
        swh \in {None, Some(108), Some(126)}, swl \in {None, Some(90)},
        brk \in {None, Some(118)}}

\* any Gate3Result: the fields the planner reads
Gate3Candidates ==
    {[passed |-> p, reason |-> <<"pass">>, structure |-> st, zone |-> z,
      tp2_candidate |-> tp2, intent |-> it] :
        p \in BOOLEAN, st \in PlanStructs, z \in PlanZones, tp2 \in Tp2Inputs,
        it \in {"LONG", "SHORT", "None"}}

\* g1.liq.swing_highs / swing_lows: none, one, repeated and unordered, five
\* beyond every tp2
LiqInputs ==
    {[swing_highs |-> <<>>, swing_lows |-> <<>>],
     [swing_highs |-> <<Some(140)>>, swing_lows |-> <<Some(70)>>],
     [swing_highs |-> <<Some(150), Some(125), None, Some(125), Some(104)>>,
      swing_lows |-> <<Some(60), Some(90), None, Some(90), Some(100)>>],
     [swing_highs |-> <<Some(170), Some(131), Some(160), Some(140), Some(150)>>,
      swing_lows |-> <<Some(40), Some(79), Some(50), Some(70), Some(60)>>]}

SnapInputs ==
    {[mark_price |-> mk[1], last_close_15m |-> mk[2], atr15 |-> atr] :
        mk \in {<<None, None>>, <<Some(0), Some(107)>>, <<Some(90), Some(107)>>,
                <<Some(120), Some(107)>>},
        atr \in {None, Some(8)}}

InitPlan ==
    /\ g3in = <<>>
    /\ g3out \in Gate3Candidates
    /\ planIn \in {[snap |-> sn, liq |-> lq] : sn \in SnapInputs, lq \in LiqInputs}
    /\ planOut = NotCalled
    /\ scoreIn = <<>>
    /\ scoreOut = <<>>
    /\ normIn = <<>>
    /\ normOut = <<>>
    /\ fnIn = <<>>
    /\ fnOut = <<>>
    /\ IdleRing
    /\ IdleView
    /\ IdleGate
    /\ IdleLoop

NextPlan == BuildPlan

SpecPlan == InitPlan /\ [][NextPlan]_vars

PlanReturned == planOut.called /\ planOut.plan # None
ThePlan == Val(planOut.plan)
IsLong == g3out.intent = "LONG"

\* what the planner works from, read off its inputs in exact arithmetic (scaled
\* by PriceScale): zone edges, mid, pad, stop and TP2
InTop == PriceScale * Max2(Val(g3out.zone).top, Val(g3out.zone).bottom)
InBot == PriceScale * Min2(Val(g3out.zone).top, Val(g3out.zone).bottom)
InMid == (InTop + InBot) \div 2
InPad == Max2((3 * (InTop - InBot)) \div 20,
              IF IsNum(planIn.snap.atr15) THEN 10 * Val(planIn.snap.atr15) ELSE 0)
InSl == IF IsLong THEN InBot - InPad ELSE InTop + InPad
InEntry2 == IF IsLong THEN InBot ELSE InTop
InTp2 == PriceScale * Val(g3out.tp2_candidate)

\* the guards of build_plan_v0 that come before the RR guard
PlanPreconditions ==
    /\ g3out.passed
    /\ g3out.intent \in {"LONG", "SHORT"}
    /\ g3out.zone # None
    /\ g3out.tp2_candidate # None
    /\ \/ IsNum(planIn.snap.mark_price) /\ Val(planIn.snap.mark_price) > 0
       \/ /\ ~(IsNum(planIn.snap.mark_price) /\ Val(planIn.snap.mark_price) > 0)
          /\ IsNum(planIn.snap.last_close_15m)
          /\ Val(planIn.snap.last_close_15m) > 0
    /\ InMid # InSl

\* RR to TP2 from an entry is at least 2.5: |tp2 - entry| >= 2.5 * |entry - sl|,
\* with a risk above zero
RrMeets(entry) ==
    /\ entry # InSl
    /\ 2 * Abs(InTp2 - entry) >= 5 * Abs(entry - InSl)

\* C14: every returned plan has rr_tp2 >= min_rr_tp2 or rr_tp2_entry2 >=
\* min_rr_tp2, these being the risk:reward to TP2 from entry1 and entry2; a plan
\* is returned iff one of them meets min_rr_tp2 (the earlier guards passing)
C14_RrFloor ==
    planOut.called =>
        /\ PlanReturned =>
              /\ \/ RrAtLeast(ThePlan.rr_tp2, MinRrTp2)
                 \/ RrAtLeast(ThePlan.rr_tp2_entry2, MinRrTp2)
              /\ ThePlan.rr_tp2 # None =>
                    /\ Val(ThePlan.rr_tp2).num = Abs(ThePlan.tps[2].price - ThePlan.entry1)
                    /\ Val(ThePlan.rr_tp2).den = Abs(ThePlan.entry1 - ThePlan.sl)
              /\ ThePlan.rr_tp2_entry2 # None =>
                    /\ Val(ThePlan.rr_tp2_entry2).num
                          = Abs(ThePlan.tps[2].price - ThePlan.entry2)
                    /\ Val(ThePlan.rr_tp2_entry2).den = Abs(ThePlan.entry2 - ThePlan.sl)
        /\ PlanPreconditions =>
              (PlanReturned <=> (RrMeets(InMid) \/ RrMeets(InEntry2)))
        /\ ~PlanPreconditions => ~PlanReturned

\* a plan accepted on entry2 alone, exactly at the floor: RR 2.5 from entry2,
\* below it from entry1
C14_Witness ==
    /\ PlanReturned
    /\ ~RrAtLeast(ThePlan.rr_tp2, MinRrTp2)
    /\ Val(ThePlan.rr_tp2_entry2).num * 10 = MinRrTp2 * Val(ThePlan.rr_tp2_entry2).den

\* the guards pass and both RRs are below the floor: no plan
C14_RejectReached ==
    /\ planOut.called
    /\ PlanPreconditions
    /\ ~PlanReturned

\* the prices of the returned ladder, TP1 first
TpPrices == [i \in 1..Len(ThePlan.tps) |-> ThePlan.tps[i].price]

\* strictly monotone in the intent direction from slot a to slot b
MonotoneBetween(a, b) ==
    \A i \in a..(b - 1) :
        IF ThePlan.intent = "LONG" THEN TpPrices[i] < TpPrices[i + 1]
        ELSE TpPrices[i] > TpPrices[i + 1]

\* C15: the take-profit ladder of every returned plan is strictly monotone in
\* the intent direction, TP1 < ... < TP5 for LONG and TP1 > ... > TP5 for SHORT
C15_AsStated == PlanReturned => MonotoneBetween(1, Len(ThePlan.tps))

\* the part of C15 that holds: liquidity levels taken after TP2 are strictly
\* beyond TP2 and strictly monotone among themselves
C15_LiqLevelsMonotone ==
    PlanReturned =>
        \A i \in 2..(Len(ThePlan.tps) - 1) :
            ThePlan.tps[i + 1].reason = "4h_swing_liq_ladder" => MonotoneBetween(i, i + 1)

\* the Gate 1 liquidity levels strictly beyond TP2, in input units
LevelsBeyondTp2 ==
    LET src == IF IsLong THEN planIn.liq.swing_highs ELSE planIn.liq.swing_lows
        lv == {Val(src[i]) : i \in {j \in 1..Len(src) : IsNum(src[j])}}
    IN {x \in lv : IF IsLong THEN x > Val(g3out.tp2_candidate)
                   ELSE x < Val(g3out.tp2_candidate)}

\* the i-th nearest of them to TP2
NthBeyondTp2(i) ==
    CHOOSE x \in LevelsBeyondTp2 :
        Cardinality({y \in LevelsBeyondTp2 :
                        Abs(y - Val(g3out.tp2_candidate))
                            < Abs(x - Val(g3out.tp2_candidate))}) = i - 1

C16_OneLevelReached ==
    /\ PlanReturned
    /\ Cardinality(LevelsBeyondTp2) = 1
    /\ ThePlan.tps[3].reason = "4h_swing_liq_ladder"
    /\ ThePlan.tps[4].reason = <<"fallback_R", 3>>

\* C17: every returned plan has risk_per_unit = |entry1 - sl| > 0, the stop on
\* the loss side of both entries and the entries not beyond the mark price
C17_AsStated ==
    PlanReturned =>
        /\ ThePlan.risk_per_unit = Abs(ThePlan.entry1 - ThePlan.sl)
        /\ ThePlan.risk_per_unit > 0
        /\ ThePlan.intent = "LONG" =>
              /\ ThePlan.sl < Min2(ThePlan.entry1, ThePlan.entry2)
              /\ Min2(ThePlan.entry1, ThePlan.entry2) <= ThePlan.mark
        /\ ThePlan.intent = "SHORT" =>
              /\ ThePlan.sl > Max2(ThePlan.entry1, ThePlan.entry2)
              /\ Max2(ThePlan.entry1, ThePlan.entry2) >= ThePlan.mark

\* the part of C17 that holds: the risk is |entry1 - sl| > 0 and the stop lies
\* on the loss side of both entries
C17_StopBeyondEntries ==
    PlanReturned =>
        /\ ThePlan.risk_per_unit = Abs(ThePlan.entry1 - ThePlan.sl)
        /\ ThePlan.risk_per_unit > 0
        /\ ThePlan.intent = "LONG" => ThePlan.sl < Min2(ThePlan.entry1, ThePlan.entry2)
        /\ ThePlan.intent = "SHORT" => ThePlan.sl > Max2(ThePlan.entry1, ThePlan.entry2)

\* the case that breaks C15: a LONG plan accepted on entry1 (RR to TP2 at least
\* 2.5), TP2 above the zone, no liquidity level beyond TP2, so TP3 is entry1 + 2R
\* and lies below TP2
C15_FallbackBelowTp2 ==
    /\ PlanReturned
    /\ IsLong
    /\ RrAtLeast(ThePlan.rr_tp2, MinRrTp2)
    /\ ThePlan.tps[2].price > ThePlan.entry1
    /\ ThePlan.tps[3].reason = <<"fallback_R", 2>>
    /\ ThePlan.tps[3].price < ThePlan.tps[2].price

\* the case that breaks C17: a LONG plan whose entries both lie above the mark
C17_EntryBeyondMark ==
    /\ PlanReturned
    /\ IsLong
    /\ ThePlan.tps[2].price > ThePlan.entry1
    /\ ThePlan.mark < Min2(ThePlan.entry1, ThePlan.entry2)

(* ---------------------------------------------------------------------- *)
(* Scorer: app/gates/scoring.py.  risk_mult is in tenths (10 = 1.0), the  *)
(* RR is the planner's exact ratio [num, den], zone fill in hundredths.   *)
(* ---------------------------------------------------------------------- *)

\* the mutant of Clamp: only the lower bound is applied
ClampLowOnly(x, lo, hi) == IF x < lo THEN lo ELSE x

\* _clamp
Clamp(x, lo, hi) == IF x < lo THEN lo ELSE IF x > hi THEN hi ELSE x

\* ScoreResult(passed, tier, risk_mult, score_0_100, rr_tp2, reasons, checks)
ScoreResult(passed, tier, risk_mult, score, rr, reasons) ==
    [passed |-> passed, tier |-> tier, risk_mult |-> risk_mult,
     score_0_100 |-> score, rr_tp2 |-> rr, reasons |-> reasons]

\* the fail-closed returns: ScoreResult(False, "SKIP", 0.0, 0, 0.0, [reason], ..)
SkipResult(reason) ==
    ScoreResult(FALSE, "SKIP", 0, 0, [num |-> 0, den |-> 1], <<reason>>)

\* not plan.rr_tp2 or plan.rr_tp2 <= 0
PlanRrMissing(plan) == plan.rr_tp2 = None \/ Val(plan.rr_tp2).num <= 0

\* rr_tp2 >= x, x in tenths
RrGe(rr, x) == rr.num * 10 >= x * rr.den

\* 1) HTF location quality
LocPart(g1) ==
    IF g1.loc \in {"discount", "premium"} THEN [d |-> 12, r |-> <<>>]
    ELSE [d |-> -8, r |-> <<"htf_location_not_extreme">>]

\* 2) derivatives regime alignment and confidence
RegimePart(g2) ==
    LET c == IF g2.confidence = "HIGH" THEN 4
             ELSE IF g2.confidence = "LOW" THEN -4 ELSE 0
    IN IF g2.regime = "healthy_trend" THEN [d |-> 10 + c, r |-> <<>>]
       ELSE IF g2.regime = "crowded_squeeze"
            THEN [d |-> 4 + c, r |-> <<"crowded_squeeze_regime">>]
       ELSE [d |-> -12 + c, r |-> <<"derivatives_neutralish">>]

\* 3) structure quality; a missing structure reads as bos = choch = False
StructPart(g3) ==
    LET bos == g3.structure # None /\ Val(g3.structure).bos
        choch == g3.structure # None /\ Val(g3.structure).choch
    IN IF bos /\ ~choch THEN [d |-> 8, r |-> <<>>]
       ELSE IF choch /\ ~bos THEN [d |-> 10, r |-> <<>>]
       ELSE IF bos /\ choch THEN [d |-> 6, r |-> <<"bos_and_choch_both_true">>]
       ELSE [d |-> -20, r |-> <<"no_break_flag">>]

\* 4) zone quality; nothing without a zone or a fill
ZonePart(g3) ==
    LET fill == IF g3.zone # None THEN Val(g3.zone).fill_pct ELSE None
    IN IF fill = None THEN [d |-> 0, r |-> <<>>]
       ELSE IF Val(fill) <= 25 THEN [d |-> 10, r |-> <<>>]
       ELSE IF Val(fill) <= 55 THEN [d |-> 5, r |-> <<>>]
       ELSE [d |-> -10, r |-> <<"zone_too_filled">>]

\* 5) RR to TP2
RrPart(rr, a_rr_min, b_rr_min) ==
    IF RrGe(rr, a_rr_min) THEN [d |-> 12, r |-> <<>>]
    ELSE IF RrGe(rr, b_rr_min) THEN [d |-> 6, r |-> <<>>]
    ELSE IF RrGe(rr, 15) THEN [d |-> -4, r |-> <<"rr_borderline">>]
    ELSE [d |-> -15, r |-> <<"rr_too_low">>]

\* the score before clamping: base 50 and the five components
RawScore(g1, g2, g3, rr, a_rr_min, b_rr_min) ==
    50 + LocPart(g1).d + RegimePart(g2).d + StructPart(g3).d + ZonePart(g3).d
       + RrPart(rr, a_rr_min, b_rr_min).d

\* the mutant of TierOf: the score alone decides the tier
TierOfScoreOnly(rr, score, a_rr_min, a_score_min, b_rr_min, b_score_min) ==
    IF score >= a_score_min THEN "A"
    ELSE IF score >= b_score_min THEN "B" ELSE "C"

\* the tier decision
TierOf(rr, score, a_rr_min, a_score_min, b_rr_min, b_score_min) ==
    IF RrGe(rr, a_rr_min) /\ score >= a_score_min THEN "A"
    ELSE IF RrGe(rr, b_rr_min) /\ score >= b_score_min THEN "B"
    ELSE "C"

\* risk_mult set with the tier
RiskMult(tier) == IF tier = "A" THEN 10 ELSE IF tier = "B" THEN 5 ELSE 0

\* f"tier_{tier}_not_in_trade_set"
TierTag(tier) ==
    IF tier = "A" THEN "tier_A_not_in_trade_set"
    ELSE IF tier = "B" THEN "tier_B_not_in_trade_set"
    ELSE "tier_C_not_in_trade_set"

AScoreMin == 80
BScoreMin == 60
ARrMin == 30
BRrMin == 20

\* score_signal_v1(snapshot, g1, g2, g3, plan=plan, only_trade_tiers=...)
ScoreSignalV1(g1, g2, g3, plan, only_trade_tiers) ==
    IF ~g1.passed THEN SkipResult("gate1_fail")
    ELSE IF (~g2.passed) \/ g2.alert_only THEN SkipResult("gate2_not_trade_eligible")
    ELSE IF ~g3.passed THEN SkipResult("gate3_fail")
    ELSE IF plan = None THEN SkipResult("plan_required_missing")
    ELSE IF PlanRrMissing(Val(plan)) THEN SkipResult("plan_rr_missing")
    ELSE
      LET rr == Val(Val(plan).rr_tp2)
          reasons == LocPart(g1).r \o RegimePart(g2).r \o StructPart(g3).r
                        \o ZonePart(g3).r \o RrPart(rr, ARrMin, BRrMin).r
          score_i == Clamp(RawScore(g1, g2, g3, rr, ARrMin, BRrMin), 0, 100)
          tier == TierOf(rr, score_i, ARrMin, AScoreMin, BRrMin, BScoreMin)
          passed == tier \in only_trade_tiers
      IN IF passed THEN ScoreResult(TRUE, tier, RiskMult(tier), score_i, rr, reasons)
         ELSE ScoreResult(FALSE, "SKIP", 0, score_i, rr,
                          Append(reasons, TierTag(tier)))

(* Scorer inputs: every gate outcome, every score component, RR on both
   sides of 1.5, 2.0 and 3.0, and four trade sets *)

ScoreG1Inputs ==
    {[passed |-> p, loc |-> l] : p \in BOOLEAN, l \in {"discount", "mid", "None"}}

ScoreG2Inputs ==
    {[passed |-> p, alert_only |-> a, regime |-> rg, confidence |-> c] :
        p \in BOOLEAN, a \in BOOLEAN,
        rg \in {"healthy_trend", "crowded_squeeze", "neutral"},
        c \in {"HIGH", "MED", "LOW"}}

ScoreG3Inputs ==
    {[passed |-> p, structure |-> st, zone |-> z] :
        p \in BOOLEAN,
        st \in {None, Some([bos |-> TRUE, choch |-> FALSE]),
                Some([bos |-> FALSE, choch |-> TRUE]),
                Some([bos |-> TRUE, choch |-> TRUE]),
                Some([bos |-> FALSE, choch |-> FALSE])},
        z \in {None, Some([fill_pct |-> Some(25)]), Some([fill_pct |-> Some(26)]),
               Some([fill_pct |-> Some(56)])}}

ScorePlanInputs ==
    {None, Some([rr_tp2 |-> None])}
        \cup {Some([rr_tp2 |-> Some([num |-> n, den |-> 10])]) :
                 n \in {0, 14, 15, 19, 20, 29, 30, 45}}

TradeSets == {{"A", "B"}, {"A"}, {"A", "B", "C"}}

InitScore ==
    /\ scoreIn \in {[g1 |-> a, g2 |-> b, g3 |-> c, plan |-> pl, only_trade_tiers |-> ts] :
                       a \in ScoreG1Inputs, b \in ScoreG2Inputs, c \in ScoreG3Inputs,
                       pl \in ScorePlanInputs, ts \in TradeSets}
    /\ scoreOut = <<>>
    /\ g3in = <<>>
    /\ g3out = <<>>
    /\ planIn = <<>>
    /\ planOut = <<>>
    /\ normIn = <<>>
    /\ normOut = <<>>
    /\ fnIn = <<>>
    /\ fnOut = <<>>
    /\ IdleRing
    /\ IdleView
    /\ IdleGate
    /\ IdleLoop

\* s = score_signal_v1(snap, g1, g2, g3, plan=plan)
Score ==
    /\ scoreIn # <<>>
    /\ scoreOut = <<>>
    /\ scoreOut' = Some(ScoreSignalV1(scoreIn.g1, scoreIn.g2, scoreIn.g3, scoreIn.plan,
                                      scoreIn.only_trade_tiers))
    /\ UNCHANGED <<scoreIn, g3in, g3out, planIn, planOut, normIn, normOut, fnIn,
                   fnOut,
                   ringVars, viewVars, gateVars, loopVars>>

NextScore == Score

SpecScore == InitScore /\ [][NextScore]_vars

Scored == scoreOut # <<>>
TheScore == Val(scoreOut)

\* the scorer got past the fail-closed returns
ScoredInFull ==
    /\ Scored
    /\ scoreIn.g1.passed
    /\ scoreIn.g2.passed /\ ~scoreIn.g2.alert_only
    /\ scoreIn.g3.passed
    /\ scoreIn.plan # None
    /\ Val(scoreIn.plan).rr_tp2 # None
    /\ Val(Val(scoreIn.plan).rr_tp2).num > 0

\* C18: every ScoreResult, the fail-closed SKIP ones included, has score_0_100
\* in [0,100] and risk_mult fixed by its tier: A 1.0, B 0.5, C or SKIP 0.0
C18_ScoreRangeAndRiskMult ==
    Scored =>
        /\ TheScore.score_0_100 \in 0..100
        /\ TheScore.tier \in {"A", "B", "C", "SKIP"}
        /\ TheScore.tier = "A" => TheScore.risk_mult = 10
        /\ TheScore.tier = "B" => TheScore.risk_mult = 5
        /\ TheScore.tier \in {"C", "SKIP"} => TheScore.risk_mult = 0

\* every component at its best: the raw score is 108 and the result reads 100,
\* tier A, risk_mult 1.0
C18_Witness ==
    /\ ScoredInFull
    /\ RawScore(scoreIn.g1, scoreIn.g2, scoreIn.g3, Val(Val(scoreIn.plan).rr_tp2),
                ARrMin, BRrMin) = 108
    /\ TheScore.score_0_100 = 100
    /\ TheScore.tier = "A"
    /\ TheScore.risk_mult = 10

\* every component at its worst: the raw score is negative and the result reads 0
C18_FloorReached ==
    /\ ScoredInFull
    /\ RawScore(scoreIn.g1, scoreIn.g2, scoreIn.g3, Val(Val(scoreIn.plan).rr_tp2),
                ARrMin, BRrMin) < 0
    /\ TheScore.score_0_100 = 0
    /\ TheScore.tier = "SKIP"

\* the tier the claim's rule assigns, from the returned score and RR
AssignedTier ==
    IF TheScore.rr_tp2.num * 10 >= 30 * TheScore.rr_tp2.den
         /\ TheScore.score_0_100 >= 80 THEN "A"
    ELSE IF TheScore.rr_tp2.num * 10 >= 20 * TheScore.rr_tp2.den
              /\ TheScore.score_0_100 >= 60 THEN "B"
    ELSE "C"

C19_TierCSkipped ==
    /\ ScoredInFull
    /\ scoreIn.only_trade_tiers = {"A", "B"}
    /\ AssignedTier = "C"
    /\ ~TheScore.passed
    /\ TheScore.tier = "SKIP"

\* tier C in the trade set: passed with tier C and risk_mult 0.0
C19_TierCTraded ==
    /\ ScoredInFull
    /\ TheScore.tier = "C"
    /\ TheScore.passed
    /\ TheScore.risk_mult = 0

(* ---------------------------------------------------------------------- *)
(* _normalize_long_pct: app/exchange/binance_futures.py.  A raw ratio is  *)
(* an integer number of millionths (561234 = 0.561234, 56120000 = 56.12); *)
(* a returned percentage is an integer number of hundredths (5612 =       *)
(* 56.12), which is what round(.., 2) leaves.                             *)
(* ---------------------------------------------------------------------- *)

\* millionths in one unit, and in one hundredth
Million == 1000000
PerHundredth == 10000

\* round(v / d) to the nearest integer, ties to even, for v >= 0
RoundDiv(v, d) ==
    LET q == v \div d
        r == v % d
    IN IF 2 * r < d THEN q
       ELSE IF 2 * r > d THEN q + 1
       ELSE IF q % 2 = 0 THEN q ELSE q + 1

\* round(max(0.0, min(100.0, pct)), 2), pct in millionths of a percent
ClampRound(pct) == RoundDiv(Max2(0, Min2(100 * Million, pct)), PerHundredth)

\* _normalize_long_pct(raw_ratio, ratio_kind, meta): the value returned and
\* what it writes to meta["ratio_scale"] ("unset" when it writes nothing)
NormalizeLongPct(raw_ratio, ratio_kind) ==
    IF raw_ratio = None THEN [y |-> None, ratio_scale |-> "unset"]
    ELSE IF ratio_kind = "longAccount"
         THEN IF 2 * Val(raw_ratio) > 3 * Million
              THEN [y |-> Some(ClampRound(Val(raw_ratio))), ratio_scale |-> "0-100"]
              ELSE [y |-> Some(ClampRound(Val(raw_ratio) * 100)), ratio_scale |-> "0-1"]
    ELSE [y |-> None, ratio_scale |-> "ls_ratio"]

\* a returned percentage read as a raw ratio again
AsRaw(y) == IF y = None THEN None ELSE Some(Val(y) * PerHundredth)

\* raw longAccount values: negative, zero, fractions down to 0.000049, both
\* sides of the 1.5 switch, percentages up to 150, none of them a rounding tie
NormRawInputs ==
    {-500000, 0, 49, 51, 5000, 10000, 15000, 561234, 561251, 999999, 1000000,
     1200000, 1500000, 1500001, 1600000, 35000000, 56123400, 56125100,
     100000000, 150000000}
        \cup {k * 125000 : k \in 1..40}

InitNorm ==
    /\ normIn \in {[raw_ratio |-> r, ratio_kind |-> k] :
                      r \in {None} \cup {Some(x) : x \in NormRawInputs},
                      k \in {"longAccount", "longShortRatio"}}
    /\ normOut = <<>>
    /\ fnIn = <<>>
    /\ fnOut = <<>>
    /\ g3in = <<>>
    /\ g3out = <<>>
    /\ planIn = <<>>
    /\ planOut = <<>>
    /\ scoreIn = <<>>
    /\ scoreOut = <<>>
    /\ IdleRing
    /\ IdleView
    /\ IdleGate
    /\ IdleLoop

\* ratio_long_pct = _normalize_long_pct(ratio, ratio_kind, meta)
Normalize ==
    /\ normIn # <<>>
    /\ normOut = <<>>
    /\ normOut' = <<NormalizeLongPct(normIn.raw_ratio, normIn.ratio_kind)>>
    /\ UNCHANGED <<normIn, g3in, g3out, planIn, planOut, scoreIn, scoreOut, fnIn, fnOut,
                   ringVars, viewVars, gateVars, loopVars>>

\* the function applied to its own output, same ratio_kind
NormalizeAgain ==
    /\ Len(normOut) = 1
    /\ normOut' = Append(normOut, NormalizeLongPct(AsRaw(normOut[1].y), normIn.ratio_kind))
    /\ UNCHANGED <<normIn, g3in, g3out, planIn, planOut, scoreIn, scoreOut, fnIn, fnOut,
                   ringVars, viewVars, gateVars, loopVars>>

NextNorm == Normalize \/ NormalizeAgain

SpecNorm == InitNorm /\ [][NextNorm]_vars

\* C20: norm(norm(x)) = norm(x) for every raw longAccount input x, and every
\* defined output lies in [0,100]
C20_AsStated ==
    /\ \A i \in 1..Len(normOut) :
          normOut[i].y # None => Val(normOut[i].y) \in 0..(100 * 100)
    /\ Len(normOut) = 2 => normOut[2].y = normOut[1].y

\* the part of C20 that holds: every defined output lies in [0,100], and an
\* output that is None, 0 or above 1.5 is returned unchanged on re-application
C20_RangeAndFixedAbove ==
    /\ \A i \in 1..Len(normOut) :
          normOut[i].y # None => Val(normOut[i].y) \in 0..(100 * 100)
    /\ (/\ Len(normOut) = 2
        /\ (normOut[1].y = None \/ Val(normOut[1].y) = 0 \/ Val(normOut[1].y) > 150))
          => normOut[2].y = normOut[1].y

\* the case that breaks C20: longAccount 0.01 normalises to 1.0 (percent), and
\* 1.0 normalises to 100.0
C20_OnePercentBecomesHundred ==
    /\ Len(normOut) = 2
    /\ normIn.ratio_kind = "longAccount"
    /\ normIn.raw_ratio = Some(10000)
    /\ normOut[1].y = Some(100)
    /\ normOut[2].y = Some(100 * 100)

\* a usual fraction: 0.561234 normalises to 56.12 and stays 56.12
C20_UsualFractionFixed ==
    /\ Len(normOut) = 2
    /\ normIn.raw_ratio = Some(561234)
    /\ normIn.ratio_kind = "longAccount"
    /\ normOut[1] = [y |-> Some(5612), ratio_scale |-> "0-1"]
    /\ normOut[2] = [y |-> Some(5612), ratio_scale |-> "0-100"]

----------------------------------------------------------------------------
(* SpecStruct: Gate 3 over a wide set of 1H series, Gate 1 and Gate 2 passing *)

TailLen == 6

\* every 30-bar series whose last TailLen bars before the last one sit at 94,
\* 100 or 106
WideCandles1H ==
    {[n |-> MinCandles1H, tail |-> t, last |-> lb] :
        t \in [1..TailLen -> {94, 100, 106}], lb \in LastBars}

InitStruct ==
    /\ g3in \in {[g1 |-> [passed |-> TRUE, bias |-> bl[1], loc |-> bl[2],
                          liq_above |-> Some(130), liq_below |-> Some(80)],
                  g2 |-> [passed |-> TRUE, alert_only |-> FALSE, regime |-> rg,
                          ratio_skew |-> "LONG",
                          directional_bias_hint |-> DirectionalHint(rg, "LONG")],
                  candles_1h |-> cs,
                  zones |-> <<ZoneBullFilled, ZoneBear, ZoneBull>>,
                  micro1_ok |-> TRUE, micro2_ok |-> TRUE] :
                    bl \in {<<"down", "premium">>},
                    rg \in {"healthy_trend", "crowded_squeeze"},
                    cs \in WideCandles1H}
    /\ g3out = NoG3
    /\ planIn = PlanInEasy
    /\ planOut = NotCalled
    /\ scoreIn = <<>>
    /\ scoreOut = <<>>
    /\ normIn = <<>>
    /\ normOut = <<>>
    /\ fnIn = <<>>
    /\ fnOut = <<>>
    /\ IdleRing
    /\ IdleView
    /\ IdleGate
    /\ IdleLoop

SpecStruct == InitStruct /\ [][NextGate3]_vars

\* C30: the structure Gate 3 carries never has bos and choch both true, has a
\* break_level exactly when one of them is true, and has neither under a range
\* or unknown trend; Gate 3 in trend mode does not pass under a range or
\* unknown 1H trend, and the scorer's bos-and-choch branch is not taken on it
C30_BreakFlagsExclusive ==
    G3Evaluated =>
        LET st == g3out.structure
        IN /\ ~(st.bos /\ st.choch)
           /\ st.break_level # None <=> (st.bos \/ st.choch)
           /\ st.trend \in {"up", "down", "range", "unknown"}
           /\ st.trend \in {"range", "unknown"} => (~st.bos /\ ~st.choch)
           /\ (g3out.passed /\ g3in.g2.regime # "crowded_squeeze")
                 => st.trend \in {"up", "down"}
           /\ StructPart([structure |-> Some(st)]).r # <<"bos_and_choch_both_true">>

\* a down trend whose last bar closes above the last swing high: CHoCH alone,
\* break_level at that high, and Gate 3 passes in trend mode
C30_Witness ==
    /\ G3Evaluated
    /\ g3out.structure.trend = "down"
    /\ Last1H.c > Val(g3out.structure.last_swing_high)
    /\ g3out.structure.choch /\ ~g3out.structure.bos
    /\ g3out.structure.break_level = g3out.structure.last_swing_high
    /\ g3in.g2.regime = "healthy_trend"
    /\ g3out.passed

\* a range whose last bar closes above the last swing high with a large body:
\* no flag, no break_level, and trend mode rejects it
C30_RangeCloseBeyond ==
    /\ G3Evaluated
    /\ g3out.structure.trend = "range"
    /\ Last1H.c > Val(g3out.structure.last_swing_high)
    /\ BigBody1H
    /\ g3out.structure.break_level = None
    /\ g3in.g2.regime = "healthy_trend"
    /\ g3out.reason = <<"struct_no_break", "range_no_signal">>

\* the trends and flags the series produce
C30_UpBosReached == G3Evaluated /\ g3out.structure.trend = "up" /\ g3out.structure.bos
C30_UpChochReached == G3Evaluated /\ g3out.structure.trend = "up" /\ g3out.structure.choch

----------------------------------------------------------------------------
(* Micro-confirm Mode 1 on 15m candles: _micro_confirm_15m.  Positions in the
   lookback window are 1-based here (the code's index i is position i + 1). *)

\* candles[-lookback:] if len(candles) > lookback else candles
LastWindow(candles, lookback) ==
    IF Len(candles) > lookback
    THEN SubSeq(candles, Len(candles) - lookback + 1, Len(candles))
    ELSE candles

\* the (idx, kind, price) swings position i contributes: high first, then low
GenericSwingsAt(c, i, left, right) ==
    LET w == (i - left)..(i + right)
    IN (IF \A k \in w : c[k].h <= c[i].h
        THEN <<[idx |-> i, kind |-> "H", price |-> c[i].h]>> ELSE <<>>)
       \o (IF \A k \in w : c[k].l >= c[i].l
           THEN <<[idx |-> i, kind |-> "L", price |-> c[i].l]>> ELSE <<>>)

RECURSIVE GenericSwingsFrom(_, _, _, _)
GenericSwingsFrom(c, i, left, right) ==
    IF i > Len(c) - right THEN <<>>
    ELSE GenericSwingsAt(c, i, left, right) \o GenericSwingsFrom(c, i + 1, left, right)

\* _fractal_swings_generic(candles, left, right)
FractalSwingsGeneric(c, left, right) ==
    IF Len(c) < left + right + 8 THEN <<>>
    ELSE GenericSwingsFrom(c, left + 1, left, right)

\* x > level + buf and x < level - buf, with buf = atr * mult (mult in
\* hundredths) when the ATR is defined and positive, else 0
AboveBy(x, level, a, mult) ==
    IF a # None /\ Val(a).sum > 0
    THEN (x - level) * 100 * Val(a).n > mult * Val(a).sum
    ELSE x > level

BelowBy(x, level, a, mult) ==
    IF a # None /\ Val(a).sum > 0
    THEN (level - x) * 100 * Val(a).n > mult * Val(a).sum
    ELSE x < level

\* the least element of a nonempty set of integers
MinOf(S) == CHOOSE x \in S : \A y \in S : x <= y

\* the mutant of BreakFrom: the sweep bar itself may be the breaking bar
BreakFromSweepBar(sweep_idx) == sweep_idx

\* range(sweep_idx + 1, len(c)): the first position a break is looked for
BreakFrom(sweep_idx) == sweep_idx + 1

MinCandles15m == 80
MicroLookback == 48

\* _micro_confirm_15m(candles_15m, intent, lookback=48, min_break_atr_mult)
MicroConfirm15m(candles, intent, mult) ==
    IF Len(candles) < MinCandles15m THEN [ok |-> FALSE, reason |-> "insufficient_15m_candles"]
    ELSE
      LET c == LastWindow(candles, MicroLookback)
          a == Atr(c, AtrN)
          swings == FractalSwingsGeneric(c, 2, 2)
          highs == OfKind(swings, "H")
          lows == OfKind(swings, "L")
      IN IF Len(highs) < 2 \/ Len(lows) < 2
         THEN [ok |-> FALSE, reason |-> "insufficient_15m_swings"]
         ELSE
           LET last == IF intent = "LONG" THEN lows[Len(lows)] ELSE highs[Len(highs)]
               sweeps == {i \in last.idx..Len(c) :
                             IF intent = "LONG"
                             THEN c[i].l < last.price /\ AboveBy(c[i].c, last.price, a, mult)
                             ELSE c[i].h > last.price /\ BelowBy(c[i].c, last.price, a, mult)}
           IN IF sweeps = {} THEN [ok |-> FALSE, reason |-> "no_sweep_15m"]
              ELSE
                LET sweep_idx == MinOf(sweeps)
                    prev == SelectSeq(IF intent = "LONG" THEN highs ELSE lows,
                                      LAMBDA x : x.idx < sweep_idx)
                IN IF Len(prev) = 0
                   THEN [ok |-> FALSE,
                         reason |-> IF intent = "LONG" THEN "no_prev_swing_high"
                                    ELSE "no_prev_swing_low"]
                   ELSE IF \E j \in BreakFrom(sweep_idx)..Len(c) :
                              IF intent = "LONG"
                              THEN AboveBy(c[j].c, prev[Len(prev)].price, a, mult)
                              ELSE BelowBy(c[j].c, prev[Len(prev)].price, a, mult)
                   THEN [ok |-> TRUE,
                         reason |-> IF intent = "LONG" THEN "micro_sweep_choch_up"
                                    ELSE "micro_sweep_choch_down"]
                   ELSE [ok |-> FALSE, reason |-> "no_choch_15m"]

(* SpecMicro: _micro_confirm_15m over 15m series ending in every tail of
   MicroTailLen bars drawn from six shapes per intent *)

MicroTailLen == 4

\* a flat run at 100 (h 102, l 98) followed by the tail bars (o, h, l, c)
Series15m(n, tail) ==
    [i \in 1..n |->
        IF i > n - Len(tail)
        THEN LET b == tail[i - (n - Len(tail))] IN Bar(i, b[1], b[2], b[3], b[4])
        ELSE FlatBar(i, 100)]

\* flat, higher, lower, a pierce of the flat lows (98) reclaimed, a close far
\* above the flat highs (102), and a bar doing both
ShapesLong ==
    {<<100, 102, 98, 100>>, <<106, 108, 104, 106>>, <<94, 96, 92, 94>>,
     <<97, 101, 90, 100>>, <<100, 112, 99, 111>>, <<100, 112, 88, 111>>}

\* the mirror images about 100
ShapesShort ==
    {<<100, 102, 98, 100>>, <<94, 96, 92, 94>>, <<106, 108, 104, 106>>,
     <<103, 110, 99, 100>>, <<100, 101, 88, 89>>, <<100, 112, 88, 89>>}

\* an input is a series, given by its length and tail, an intent and the
\* buffer multiple in hundredths
MicroInputs ==
    {[n |-> n, tail |-> t, intent |-> "LONG", mult |-> m] :
        n \in {79, 80}, t \in [1..MicroTailLen -> ShapesLong], m \in {10, 12}}
    \cup
    {[n |-> n, tail |-> t, intent |-> "SHORT", mult |-> m] :
        n \in {79, 80}, t \in [1..MicroTailLen -> ShapesShort], m \in {10, 12}}

\* snapshot.candles_15m of an input
Candles15m(in) == Series15m(in.n, in.tail)

InitMicro ==
    /\ fnIn \in MicroInputs
    /\ fnOut = <<>>
    /\ g3in = <<>>
    /\ g3out = <<>>
    /\ planIn = <<>>
    /\ planOut = <<>>
    /\ scoreIn = <<>>
    /\ scoreOut = <<>>
    /\ normIn = <<>>
    /\ normOut = <<>>
    /\ IdleRing
    /\ IdleView
    /\ IdleGate
    /\ IdleLoop

\* micro_ok, micro_reason = _micro_confirm_15m(snapshot.candles_15m, intent=..)
MicroConfirm ==
    /\ fnIn # <<>>
    /\ fnOut = <<>>
    /\ fnOut' = <<MicroConfirm15m(Candles15m(fnIn), fnIn.intent, fnIn.mult)>>
    /\ UNCHANGED <<fnIn, g3in, g3out, planIn, planOut, scoreIn, scoreOut, normIn,
                   normOut, ringVars, viewVars, gateVars, loopVars>>

NextMicro == MicroConfirm

SpecMicro == InitMicro /\ [][NextMicro]_vars

\* the most recent swing of a nonempty set, and the swings before position i
LatestSwing(S) == CHOOSE x \in S : \A y \in S : y.idx <= x.idx
SwingsBefore(S, i) == {x \in S : x.idx < i}

\* what the claim speaks of, read off the input: the lookback window, its swing
\* highs and lows with their positions, the most recent of each, and the sum
\* of the 14 true ranges
MicroFacts ==
    LET win == LastWindow(Candles15m(fnIn), 48)
        sw == FractalSwingsGeneric(win, 2, 2)
        all == {sw[k] : k \in 1..Len(sw)}
        highs == {x \in all : x.kind = "H"}
        lows == {x \in all : x.kind = "L"}
    IN [win |-> win, highs |-> highs, lows |-> lows,
        last_high |-> IF highs = {} THEN None ELSE Some(LatestSwing(highs).price),
        last_low |-> IF lows = {} THEN None ELSE Some(LatestSwing(lows).price),
        asum |-> Val(Atr(win, 14)).sum]

\* x exceeds level by more than mult/100 * ATR(14), upwards and downwards
ExceedsUp(x, level, asum) == (x - level) * 100 * 14 > fnIn.mult * asum
ExceedsDown(x, level, asum) == (level - x) * 100 * 14 > fnIn.mult * asum

\* bar i has its low below the most recent swing low and closes above it by
\* the buffer, and a swing high lies before i; the mirror image
SweepLowAt(f, i) ==
    /\ f.last_low # None
    /\ f.win[i].l < Val(f.last_low)
    /\ ExceedsUp(f.win[i].c, Val(f.last_low), f.asum)
    /\ SwingsBefore(f.highs, i) # {}

SweepHighAt(f, i) ==
    /\ f.last_high # None
    /\ f.win[i].h > Val(f.last_high)
    /\ ExceedsDown(f.win[i].c, Val(f.last_high), f.asum)
    /\ SwingsBefore(f.lows, i) # {}

\* some bar after i closes beyond, by the buffer, the latest opposite swing
\* before i
BreakUpAfter(f, i) ==
    LET ref == LatestSwing(SwingsBefore(f.highs, i)).price
    IN \E j \in (i + 1)..Len(f.win) : ExceedsUp(f.win[j].c, ref, f.asum)

BreakDownAfter(f, i) ==
    LET ref == LatestSwing(SwingsBefore(f.lows, i)).price
    IN \E j \in (i + 1)..Len(f.win) : ExceedsDown(f.win[j].c, ref, f.asum)

MicroDone == fnIn # <<>> /\ fnOut # <<>>

\* C23: Mode 1 succeeds for LONG only if the window holds bars i < j, bar i with
\* its low below the most recent swing low and its close above that low plus
\* the buffer, bar j closing above, by the buffer, the latest swing high before
\* i; SHORT is the mirror image; a break at or before the sweep bar does not
\* confirm
C23_SweepThenBreak ==
    (MicroDone /\ fnOut[1].ok) =>
        /\ fnIn.n >= 80
        /\ LET f == MicroFacts
           IN \E i \in 1..Len(f.win) :
                 IF fnIn.intent = "LONG" THEN SweepLowAt(f, i) /\ BreakUpAfter(f, i)
                 ELSE SweepHighAt(f, i) /\ BreakDownAfter(f, i)

\* LONG: the second to last bar pierces the swing low and reclaims it, the last
\* bar closes above the swing high: confirmed
C23_Witness ==
    /\ MicroDone
    /\ fnIn.intent = "LONG"
    /\ fnOut[1] = [ok |-> TRUE, reason |-> "micro_sweep_choch_up"]
    /\ LET f == MicroFacts
       IN SweepLowAt(f, Len(f.win) - 1) /\ BreakUpAfter(f, Len(f.win) - 1)

\* LONG: the last bar both pierces the swing low and closes above the swing
\* high, after an earlier break and no earlier sweep: not confirmed
C23_BreakAtSweepBar ==
    /\ MicroDone
    /\ fnIn.intent = "LONG"
    /\ fnIn.n >= 80
    /\ fnOut[1] = [ok |-> FALSE, reason |-> "no_choch_15m"]
    /\ LET f == MicroFacts
       IN /\ SweepLowAt(f, Len(f.win))
          /\ f.win[Len(f.win)].c > 110
          /\ f.win[Len(f.win) - 1].c > 110

\* SHORT confirmed
C23_ShortReached ==
    /\ MicroDone
    /\ fnIn.intent = "SHORT"
    /\ fnOut[1] = [ok |-> TRUE, reason |-> "micro_sweep_choch_down"]

\* ---------------------------------------------------------------------------
\* 15m fair value gaps (smc/zones.py)
\* ---------------------------------------------------------------------------

\* a fraction num/den with den > 0, and its comparisons
Frac(num, den) == [num |-> num, den |-> den]
FracLt(a, b) == a.num * b.den < b.num * a.den
FracLe(a, b) == a.num * b.den <= b.num * a.den

\* _clamp01(x)
Clamp01(x) ==
    IF x.num < 0 THEN Frac(0, x.den)
    ELSE IF x.num > x.den THEN Frac(x.den, x.den)
    ELSE x

Zone(kind, top, bottom, created_ts, touched, fill_pct, score, reason) ==
    [kind |-> kind, tf |-> "15m", top |-> top, bottom |-> bottom,
     created_ts |-> created_ts, touched |-> touched, fill_pct |-> fill_pct,
     score |-> score, reason |-> reason]

MaxOf(S) == CHOOSE x \in S : \A y \in S : x >= y

\* the bars of the scan for a zone made at created_ts
PostBars(candles, created_ts) == {k \in 1..Len(candles) : candles[k].ts >= created_ts}

\* reason of a touched or untouched zone (thresholds 0.33 and 0.66)
FillReason(touched, fill_pct) ==
    IF ~touched THEN "fresh"
    ELSE IF FracLe(fill_pct, Frac(33, 100)) THEN "light_fill"
    ELSE IF FracLe(fill_pct, Frac(66, 100)) THEN "mid_fill"
    ELSE "deep_fill"

\* _zone_from_gap(kind, top, bottom, candles, created_ts); prices are integers,
\* so height = top - bottom whenever top > bottom
ZoneFromGap(kind, top0, bottom0, candles, created_ts) ==
    LET top == IF top0 < bottom0 THEN bottom0 ELSE top0
        bottom == IF top0 < bottom0 THEN top0 ELSE bottom0
        post == PostBars(candles, created_ts)
    IN  IF Cardinality(post) < 3
        THEN Zone(kind, top, bottom, created_ts, FALSE, Frac(0, 1), Frac(0, 1),
                  "too_few_post_candles")
        ELSE
            LET height == Max2(1, top - bottom)
                min_low == MinOf({candles[k].l : k \in post})
                max_high == MaxOf({candles[k].h : k \in post})
                touched == IF kind = "FVG_BULL" THEN min_low <= top ELSE max_high >= bottom
                depth == IF kind = "FVG_BULL" THEN top - Max2(min_low, bottom)
                         ELSE Min2(max_high, top) - bottom
                fill_pct == IF touched THEN Clamp01(Frac(depth, height)) ELSE Frac(0, 1)
                \* score = (1.0 - fill_pct) + 0.1
                score == Frac(10 * (fill_pct.den - fill_pct.num) + fill_pct.den,
                              10 * fill_pct.den)
            IN  Zone(kind, top, bottom, created_ts, touched, fill_pct, score,
                     FillReason(touched, fill_pct))

\* the zones appended by the loop over i, in order: at each i a bull gap
\* (numbered 2i) and then a bear gap (numbered 2i + 1)
GapZones(c) ==
    LET gaps == {2 * i : i \in {j \in 2..(Len(c) - 1) : c[j - 1].h < c[j + 1].l}}
                  \cup {2 * i + 1 : i \in {j \in 2..(Len(c) - 1) : c[j - 1].l > c[j + 1].h}}
        order == SortedSeq(gaps)
    IN  [k \in 1..Len(order) |->
            LET i == order[k] \div 2
                a == c[i - 1]
                b == c[i]
                d == c[i + 1]
            IN  IF order[k] % 2 = 0
                THEN ZoneFromGap("FVG_BULL", d.l, a.h, c, b.ts)
                ELSE ZoneFromGap("FVG_BEAR", a.l, d.h, c, b.ts)]

\* key (score, created_ts) of zones.sort(..., reverse=True)
ZoneKeyGe(x, y) ==
    \/ FracLt(y.score, x.score)
    \/ (FracLe(y.score, x.score) /\ x.created_ts >= y.created_ts)

RECURSIVE SortZones(_)
SortZones(zs) ==
    IF zs = <<>> THEN <<>>
    ELSE LET k == CHOOSE k \in 1..Len(zs) :
                      /\ \A j \in 1..Len(zs) : ZoneKeyGe(zs[k], zs[j])
                      /\ \A j \in 1..(k - 1) : ~ZoneKeyGe(zs[j], zs[k])
         IN  <<zs[k]>> \o SortZones(SubSeq(zs, 1, k - 1) \o SubSeq(zs, k + 1, Len(zs)))

MinCandlesFvg == 10
FvgLookback == 120

\* find_fvg_15m(candles_15m, lookback)
FindFvg15m(candles_15m, lookback) ==
    IF Len(candles_15m) < MinCandlesFvg THEN <<>>
    ELSE SortZones(GapZones(LastWindow(candles_15m, lookback)))

\* Inputs: 15m series of flat bars (98..102) ending in a tail of bars given by
\* their (low, high).
ZoneTailLen == 4

ZoneShapes ==
    {<<98, 102>>,      \* flat
     <<100, 112>>,     \* a wide bar up starting inside the flat range
     <<106, 110>>,     \* above a gap 102..106
     <<105, 109>>,     \* one into a gap 102..106
     <<97, 108>>,      \* through a gap 102..106
     <<88, 100>>,      \* a wide bar down
     <<90, 94>>}       \* below a gap 94..98

SeriesFvg(n, tail) ==
    [i \in 1..n |->
        IF i > n - Len(tail)
        THEN LET sh == tail[i - (n - Len(tail))]
             IN  Bar(900 * i, sh[1], sh[2], sh[1], sh[2])
        ELSE Bar(900 * i, 100, 102, 98, 100)]

ZoneInputs ==
    {[n |-> n, tail |-> t] : n \in {9, 12, 122}, t \in [1..ZoneTailLen -> ZoneShapes]}

CandlesFvg(in) == SeriesFvg(in.n, in.tail)

InitZone ==
    /\ fnIn \in ZoneInputs
    /\ fnOut = <<>>
    /\ g3in = <<>>
    /\ g3out = <<>>
    /\ planIn = <<>>
    /\ planOut = <<>>
    /\ scoreIn = <<>>
    /\ scoreOut = <<>>
    /\ normIn = <<>>
    /\ normOut = <<>>
    /\ IdleRing
    /\ IdleView
    /\ IdleGate
    /\ IdleLoop

\* zones = find_fvg_15m(snapshot.candles_15m, lookback=120)
FindZones ==
    /\ fnIn # <<>>
    /\ fnOut = <<>>
    /\ fnOut' = <<FindFvg15m(CandlesFvg(fnIn), FvgLookback)>>
    /\ UNCHANGED <<fnIn, g3in, g3out, planIn, planOut, scoreIn, scoreOut, normIn,
                   normOut, ringVars, viewVars, gateVars, loopVars>>

NextZone == FindZones

SpecZone == InitZone /\ [][NextZone]_vars

ZonesDone == fnOut # <<>>
TheZones == fnOut[1]

\* the scanned window, and in it the index of the middle bar of zone z
ZoneWindow == LastWindow(CandlesFvg(fnIn), FvgLookback)
GapBarOf(z) == CHOOSE k \in 1..Len(ZoneWindow) : ZoneWindow[k].ts = z.created_ts

\* the fill of zone z measured on the bars after the three bars of its gap
FillAfterGap(z) ==
    LET c == ZoneWindow
        after == {k \in 1..Len(c) : k > GapBarOf(z) + 1}
        lows == {c[k].l : k \in after}
        highs == {c[k].h : k \in after}
        height == z.top - z.bottom
    IN  IF after = {} THEN Frac(0, 1)
        ELSE IF z.kind = "FVG_BULL"
        THEN IF MinOf(lows) <= z.top
             THEN Clamp01(Frac(z.top - Max2(MinOf(lows), z.bottom), height))
             ELSE Frac(0, 1)
        ELSE IF MaxOf(highs) >= z.bottom
             THEN Clamp01(Frac(Min2(MaxOf(highs), z.top) - z.bottom, height))
             ELSE Frac(0, 1)

FracEq(a, b) == a.num * b.den = b.num * a.den

\* C24: for each 15m FVG zone, fill_pct is the fill measured on the bars after
\* the gap (the three bars forming it do not count), fill_pct is in [0,1], and
\* touched is true exactly when fill_pct > 0.
C24_AsStated ==
    ZonesDone =>
        \A k \in 1..Len(TheZones) :
            LET z == TheZones[k]
            IN  /\ FracEq(z.fill_pct, FillAfterGap(z))
                /\ 0 <= z.fill_pct.num /\ z.fill_pct.num <= z.fill_pct.den
                /\ z.touched <=> z.fill_pct.num > 0

\* C24, the part that holds: fill_pct is in [0,1] and a zone with fill_pct > 0
\* is touched
C24_FillInUnitRange ==
    ZonesDone =>
        \A k \in 1..Len(TheZones) :
            LET z == TheZones[k]
            IN  /\ 0 <= z.fill_pct.num /\ z.fill_pct.num <= z.fill_pct.den
                /\ z.fill_pct.num > 0 => z.touched

\* a bull gap 102..106 that no later bar enters, reported as fully filled
\* because the middle bar of the gap starts at 100
C24_GapBarCountsAsFill ==
    /\ ZonesDone
    /\ \E k \in 1..Len(TheZones) :
        LET z == TheZones[k]
        IN  /\ z.kind = "FVG_BULL"
            /\ FillAfterGap(z).num = 0
            /\ GapBarOf(z) + 1 < Len(ZoneWindow)
            /\ z.fill_pct.num = z.fill_pct.den
            /\ z.reason = "deep_fill"

\* a zone reported as touched with fill_pct = 0: the third bar of its gap
\* bounds the zone and so always reaches it
C24_TouchedAtZeroFill ==
    /\ ZonesDone
    /\ \E k \in 1..Len(TheZones) :
        /\ TheZones[k].touched
        /\ TheZones[k].fill_pct.num = 0
        /\ TheZones[k].reason = "light_fill"

\* a zone never reported as untouched once it has three bars from the gap on
C24_NeverFresh ==
    ZonesDone => \A k \in 1..Len(TheZones) : TheZones[k].reason # "fresh"

\* ---------------------------------------------------------------------------
\* Gate 1: 4H clarity (gates/gate1_htf.py, smc/htf_bias.py)
\* ---------------------------------------------------------------------------

HtfWindow == 60
MinCandles4H == 80

HTFBias(bias, location, pos_pct, range_high, range_low) ==
    [bias |-> bias, location |-> location, pos_pct |-> pos_pct,
     range_high |-> range_high, range_low |-> range_low]

\* compute_htf_bias(candles_4h, window) on a series given by its length, the
\* high and low of its last window bars and its last close; ema_bias is the
\* outcome of the EMA20 / EMA50 / EMA50-slope comparison
ComputeHtfBias(c4h, window) ==
    IF c4h.n < Max2(MinCandles4H, window) THEN None
    ELSE LET rng == c4h.range_high - c4h.range_low
         IN  IF rng <= 0 THEN None
             ELSE LET pos == Frac(c4h.last_close - c4h.range_low, rng)
                      loc == IF FracLe(pos, Frac(30, 100)) THEN "discount"
                             ELSE IF FracLe(Frac(70, 100), pos) THEN "premium"
                             ELSE "mid"
                  IN  Some(HTFBias(c4h.ema_bias, loc, pos, c4h.range_high, c4h.range_low))

Gate1Result(passed, reason, htf, liq) ==
    [passed |-> passed, reason |-> reason, htf |-> htf, liq |-> liq]

\* snapshot.symbol.upper()
Upper(sym) == IF sym = "btcusdt" THEN "BTCUSDT" ELSE sym

\* the mutant of SpreadTier: the core pairs are held to the majors' maximum
SpreadTierCoreAsMajor(sym) ==
    IF sym \in {"BTCUSDT", "ETHUSDT", "BNBUSDT", "SOLUSDT"}
    THEN [max_sp |-> 6, tag |-> "major"]
    ELSE IF sym \in {"ARBUSDT", "NEARUSDT"} THEN [max_sp |-> 25, tag |-> "alt_low_price"]
    ELSE [max_sp |-> 15, tag |-> "alt"]

\* max_sp (in 0.01 %) and tag of a symbol
SpreadTier(sym) ==
    IF sym \in {"BTCUSDT", "ETHUSDT"} THEN [max_sp |-> 2, tag |-> "core"]
    ELSE IF sym \in {"BNBUSDT", "SOLUSDT"} THEN [max_sp |-> 6, tag |-> "major"]
    ELSE IF sym \in {"ARBUSDT", "NEARUSDT"} THEN [max_sp |-> 25, tag |-> "alt_low_price"]
    ELSE [max_sp |-> 15, tag |-> "alt"]

\* f"spread_too_wide_{tag}"
SpreadReason(tag) ==
    CASE tag = "core" -> "spread_too_wide_core"
      [] tag = "major" -> "spread_too_wide_major"
      [] tag = "alt_low_price" -> "spread_too_wide_alt_low_price"
      [] OTHER -> "spread_too_wide_alt"

\* gate1_htf_clarity(snapshot); spread_pct in 0.01 %
Gate1HtfClarity(snapshot) ==
    LET htf_opt == ComputeHtfBias(snapshot.candles_4h, HtfWindow)
    IN  IF htf_opt = None
        THEN Gate1Result(FALSE, "insufficient_4h_candles", None, None)
        ELSE
            LET htf == Val(htf_opt)
                liq == snapshot.liq
                sp == snapshot.spread_pct
                tier == SpreadTier(Upper(snapshot.symbol))
                pos == htf.pos_pct
                clarity_ok == \/ htf.bias \in {"up", "down"}
                              \/ (htf.bias = "range" /\ htf.location \in {"discount", "premium"})
            IN  IF sp # None /\ Val(sp) > tier.max_sp
                THEN Gate1Result(FALSE, SpreadReason(tier.tag), htf_opt, Some(liq))
                ELSE IF /\ htf.bias = "range"
                        /\ ~(FracLe(pos, Frac(30, 100)) \/ FracLe(Frac(70, 100), pos))
                THEN Gate1Result(FALSE, "mid_range_4h_range_regime", htf_opt, Some(liq))
                ELSE IF /\ htf.bias # "range"
                        /\ FracLt(Frac(42, 100), pos) /\ FracLt(pos, Frac(58, 100))
                THEN Gate1Result(FALSE, "mid_range_4h_trend_dead_mid", htf_opt, Some(liq))
                ELSE IF ~clarity_ok
                THEN Gate1Result(FALSE, "no_clarity", htf_opt, Some(liq))
                ELSE IF liq.above = None /\ liq.below = None
                THEN Gate1Result(FALSE, "no_liquidity_target", htf_opt, Some(liq))
                ELSE Gate1Result(TRUE, "pass", htf_opt, Some(liq))

\* Inputs: 79 or 80 4H candles, a 60-bar range 100..200 (or an empty range),
\* the last close at and next to every threshold of the location rules, the
\* three EMA outcomes, the four shapes of the liquidity targets, a symbol of
\* every tier, and spreads at and above every tier maximum (or none).
Candles4HInputs ==
    [n : {MinCandles4H - 1, MinCandles4H}, range_low : {100}, range_high : {100, 200},
     last_close : {100, 130, 131, 142, 143, 157, 158, 169, 170, 200},
     ema_bias : {"up", "down", "range"}]

LiqTargetInputs == [above : {None, Some(210)}, below : {None, Some(90)}]

SymbolInputs == {"BTCUSDT", "btcusdt", "SOLUSDT", "ARBUSDT", "LINKUSDT"}

SpreadInputs == {None} \cup {Some(x) : x \in {2, 3, 5, 6, 7, 15, 16, 25, 26}}

Gate1Inputs ==
    {[symbol |-> sym, spread_pct |-> sp, candles_4h |-> c, liq |-> lq] :
        sym \in SymbolInputs, sp \in SpreadInputs,
        c \in {x \in Candles4HInputs : x.range_high > x.range_low \/ x.last_close = 100},
        lq \in LiqTargetInputs}

InitGate1 ==
    /\ fnIn \in Gate1Inputs
    /\ fnOut = <<>>
    /\ g3in = <<>>
    /\ g3out = <<>>
    /\ planIn = <<>>
    /\ planOut = <<>>
    /\ scoreIn = <<>>
    /\ scoreOut = <<>>
    /\ normIn = <<>>
    /\ normOut = <<>>
    /\ IdleRing
    /\ IdleView
    /\ IdleGate
    /\ IdleLoop

\* g1 = gate1_htf_clarity(snap)
EvalGate1 ==
    /\ fnIn # <<>>
    /\ fnOut = <<>>
    /\ fnOut' = <<Gate1HtfClarity(fnIn)>>
    /\ UNCHANGED <<fnIn, g3in, g3out, planIn, planOut, scoreIn, scoreOut, normIn,
                   normOut, ringVars, viewVars, gateVars, loopVars>>

NextGate1 == EvalGate1

SpecGate1 == InitGate1 /\ [][NextGate1]_vars

G1Done == fnOut # <<>>
TheG1 == fnOut[1]

\* the five checks, read off the snapshot
G1TooFewCandles ==
    \/ fnIn.candles_4h.n < 80
    \/ fnIn.candles_4h.range_high <= fnIn.candles_4h.range_low
G1Pos100 ==
    (100 * (fnIn.candles_4h.last_close - fnIn.candles_4h.range_low))
        \div (fnIn.candles_4h.range_high - fnIn.candles_4h.range_low)
G1SpreadTag ==
    CASE fnIn.symbol \in {"BTCUSDT", "btcusdt", "ETHUSDT"} /\ Val(fnIn.spread_pct) > 2
            -> "spread_too_wide_core"
      [] fnIn.symbol \in {"BNBUSDT", "SOLUSDT"} /\ Val(fnIn.spread_pct) > 6
            -> "spread_too_wide_major"
      [] fnIn.symbol \in {"ARBUSDT", "NEARUSDT"} /\ Val(fnIn.spread_pct) > 25
            -> "spread_too_wide_alt_low_price"
      [] fnIn.symbol = "LINKUSDT" /\ Val(fnIn.spread_pct) > 15
            -> "spread_too_wide_alt"
      [] OTHER -> "ok"
G1SpreadTooWide == fnIn.spread_pct # None /\ G1SpreadTag # "ok"
G1LocationReason ==
    IF fnIn.candles_4h.ema_bias = "range"
    THEN IF G1Pos100 > 30 /\ G1Pos100 < 70 THEN "mid_range_4h_range_regime" ELSE "ok"
    ELSE IF G1Pos100 > 42 /\ G1Pos100 < 58 THEN "mid_range_4h_trend_dead_mid" ELSE "ok"
G1NoClarity ==
    /\ fnIn.candles_4h.ema_bias = "range"
    /\ G1Pos100 > 30 /\ G1Pos100 < 70
G1NoLiquidity == fnIn.liq.above = None /\ fnIn.liq.below = None

\* C25: gate1_htf_clarity returns the reason of the first failing check in the
\* order candle sufficiency, spread tier, location, clarity, liquidity, and
\* passes only if none fails; a spread above the tier maximum (core 0.02,
\* majors 0.06, low-price alts 0.25, other alts 0.15) is spread_too_wide_<tier>.
C25_FirstFailingCheck ==
    G1Done =>
        /\ TheG1.reason =
             IF G1TooFewCandles THEN "insufficient_4h_candles"
             ELSE IF G1SpreadTooWide THEN G1SpreadTag
             ELSE IF G1LocationReason # "ok" THEN G1LocationReason
             ELSE IF G1NoClarity THEN "no_clarity"
             ELSE IF G1NoLiquidity THEN "no_liquidity_target"
             ELSE "pass"
        /\ TheG1.passed <=> TheG1.reason = "pass"
        /\ TheG1.passed <=>
             ~(G1TooFewCandles \/ G1SpreadTooWide \/ G1LocationReason # "ok"
               \/ G1NoClarity \/ G1NoLiquidity)

\* BTCUSDT with spread_pct = 0.05 and enough candles: spread_too_wide_core,
\* although location and liquidity fail too
C25_Witness ==
    /\ G1Done
    /\ fnIn.symbol = "BTCUSDT"
    /\ fnIn.spread_pct = Some(5)
    /\ ~G1TooFewCandles
    /\ G1LocationReason # "ok"
    /\ G1NoLiquidity
    /\ TheG1 = Gate1Result(FALSE, "spread_too_wide_core", fnOut[1].htf, Some(fnIn.liq))

\* a wide spread on too few candles is insufficient_4h_candles
C25_CandlesBeforeSpread ==
    /\ G1Done
    /\ fnIn.candles_4h.n = 79
    /\ fnIn.spread_pct = Some(26)
    /\ TheG1 = Gate1Result(FALSE, "insufficient_4h_candles", None, None)

\* a pass, with the spread exactly at the tier maximum
C25_PassAtTierMaximum ==
    /\ G1Done
    /\ fnIn.symbol = "LINKUSDT"
    /\ fnIn.spread_pct = Some(15)
    /\ TheG1.passed

\* 80 candles with an empty range are insufficient_4h_candles too
C25_EmptyRange ==
    /\ G1Done
    /\ fnIn.candles_4h.n = 80
    /\ fnIn.candles_4h.range_high = fnIn.candles_4h.range_low
    /\ TheG1.reason = "insufficient_4h_candles"

\* the clarity check never fails once the location check has passed
C25_NoClarityNeverReturned == G1Done => TheG1.reason # "no_clarity"

\* ---------------------------------------------------------------------------
\* SpecWarm: get_gate2_ctx from an empty ring, with the default hist_maxlen and
\* z_window, for one symbol, called again at the same clock reading or one
\* hour later
\* ---------------------------------------------------------------------------

DefaultHistMaxLen == 72
MaxWarmHours == 75     \* the clock stays within hours 0..MaxWarmHours
MaxRepeats == 2        \* calls repeated at an unchanged clock reading

\* what the exchange reports at a clock reading
FetchedAt(now) == IF (now \div BucketSec) % 2 = 0 THEN ObsHot ELSE ObsCalm

\* distinct 1H buckets in which get_gate2_ctx has been called
BucketsCalled == IF ncalls = 0 THEN 0 ELSE clock \div BucketSec + 1

InitWarm ==
    /\ persist = EmptyDict
    /\ store = EmptyDict
    /\ ctx2 = NoCtx
    /\ ncalls = 0
    /\ clock \in {0, 1800, 3599}
    /\ clockOK = TRUE
    /\ IdleView /\ IdleGate /\ IdleLoop /\ IdlePure

WarmCall ==
    /\ \E now \in {clock} \cup (IF ncalls > 0 THEN {clock + BucketSec} ELSE {}) :
          /\ now \div BucketSec <= MaxWarmHours
          /\ (ncalls > 0 /\ now = clock) => ncalls < BucketsCalled + MaxRepeats
          /\ GetGate2Ctx(Binance, BTCUSDT, now, FetchedAt(now), DefaultHistMaxLen, ZWindow)
          /\ clock' = now
    /\ ncalls' = ncalls + 1
    /\ UNCHANGED <<clockOK, viewVars, gateVars, pureVars, loopVars>>

NextWarm == WarmCall

SpecWarm == InitWarm /\ [][NextWarm]_vars

WarmRing == RingOf(Binance, BTCUSDT)

\* C26: from an empty ring, with calls in successive 1H buckets under a
\* non-decreasing clock and the defaults (72, 24), ctx.ready is false on every
\* call while the ring holds fewer than 18 buckets, true on the call that
\* reaches 18, and true on every later call; history_len never decreases.
C26_ReadyFromEighteen ==
    /\ [](ncalls > 0 =>
            /\ ctx2.ready <=> BucketsCalled >= 18
            /\ ctx2.ready <=> Len(WarmRing) >= 18
            /\ ctx2.history_len = Len(WarmRing)
            /\ Len(WarmRing) = Min2(BucketsCalled, 72))
    /\ [][ncalls > 0 =>
            /\ ctx2.ready => ctx2'.ready
            /\ ctx2'.history_len >= ctx2.history_len]_vars

\* the call that brings the ring to 18 buckets is the first ready one
C26_Witness ==
    /\ ncalls > 0
    /\ BucketsCalled = 18
    /\ ctx2.history_len = 18
    /\ ctx2.ready

\* the last call before it
C26_SeventeenNotReady ==
    /\ BucketsCalled = 17
    /\ ncalls > 17
    /\ ctx2.history_len = 17
    /\ ~ctx2.ready

\* a full ring that has dropped its oldest buckets is still ready
C26_FullRingReady ==
    /\ BucketsCalled > 72
    /\ Len(WarmRing) = 72
    /\ WarmRing[1].bucket_ts > 0
    /\ ctx2.history_len = 72
    /\ ctx2.ready

\* ---------------------------------------------------------------------------
\* SpecForming: the 1H analyses of Gate 3 on a candle sequence whose last
\* element is the bar still forming (exchange/binance_futures.py fetch_ohlcv
\* returns the klines as the exchange sends them; data/market_fetcher.py and
\* build_snapshot pass them on unchanged)
\* ---------------------------------------------------------------------------

\* the closed bars of the input, and the sequence the exchange client supplies
ClosedBars(in) == Series1H(in.closed.n, in.closed.tail, in.closed.last)
Supplied(in) ==
    Append(ClosedBars(in),
           Bar(in.closed.n + 1, in.forming[1], in.forming[2], in.forming[3], in.forming[4]))

\* last = candles_1h[-1]
LastBar(candles) == candles[Len(candles)]

\* what Gate 3 computes from snapshot.candles_1h
Analyses1H(candles) ==
    [structure |-> AnalyzeStructure1H(candles),
     displacement |-> HasDisplacement(candles, DispMult),
     sweep_above |-> SweepExternal1H(candles, Some(130), "ABOVE"),
     sweep_below |-> SweepExternal1H(candles, Some(80), "BELOW"),
     last_ts |-> LastBar(candles).ts]

FormingInputs ==
    {[closed |-> c, forming |-> f] :
        c \in {x \in Candles1HInputs : x.n = MinCandles1H}, f \in LastBars}

InitForming ==
    /\ fnIn \in FormingInputs
    /\ fnOut = <<>>
    /\ g3in = <<>>
    /\ g3out = <<>>
    /\ planIn = <<>>
    /\ planOut = <<>>
    /\ scoreIn = <<>>
    /\ scoreOut = <<>>
    /\ normIn = <<>>
    /\ normOut = <<>>
    /\ IdleRing
    /\ IdleView
    /\ IdleGate
    /\ IdleLoop

\* Gate 3 reads snapshot.candles_1h as supplied
AnalyzeSupplied ==
    /\ fnIn # <<>>
    /\ fnOut = <<>>
    /\ fnOut' = <<Analyses1H(Supplied(fnIn))>>
    /\ UNCHANGED <<fnIn, g3in, g3out, planIn, planOut, scoreIn, scoreOut, normIn,
                   normOut, ringVars, viewVars, gateVars, loopVars>>

NextForming == AnalyzeSupplied

SpecForming == InitForming /\ [][NextForming]_vars

FormingDone == fnOut # <<>>

\* C27: when the last element supplied is the still-forming bar, the 1H break
\* detection and the 1H displacement and sweep checks take the second-to-last
\* element as their last bar: they read the last closed bar and give what the
\* closed bars alone give.
C27_AsStated ==
    FormingDone =>
        /\ fnOut[1].last_ts = LastBar(ClosedBars(fnIn)).ts
        /\ fnOut[1].structure = AnalyzeStructure1H(ClosedBars(fnIn))
        /\ fnOut[1].displacement = HasDisplacement(ClosedBars(fnIn), DispMult)
        /\ fnOut[1].sweep_above = SweepExternal1H(ClosedBars(fnIn), Some(130), "ABOVE")
        /\ fnOut[1].sweep_below = SweepExternal1H(ClosedBars(fnIn), Some(80), "BELOW")

\* what holds instead: the bar read as the last one is always the last element
\* supplied
C27_LastElementRead ==
    FormingDone =>
        /\ fnOut[1].last_ts = fnIn.closed.n + 1
        /\ fnOut[1].last_ts # LastBar(ClosedBars(fnIn)).ts

\* a break of structure with displacement reported from the forming bar alone:
\* the closed bars show no break and no displacement
C27_BreakFromFormingBar ==
    /\ FormingDone
    /\ fnOut[1].structure.bos
    /\ fnOut[1].displacement
    /\ ~AnalyzeStructure1H(ClosedBars(fnIn)).bos
    /\ ~AnalyzeStructure1H(ClosedBars(fnIn)).choch
    /\ ~HasDisplacement(ClosedBars(fnIn), DispMult)

\* a break on the last closed bar that the analysis no longer reports, because
\* the forming bar trades back inside
C27_ClosedBreakMissed ==
    /\ FormingDone
    /\ AnalyzeStructure1H(ClosedBars(fnIn)).bos
    /\ ~fnOut[1].structure.bos
    /\ ~fnOut[1].structure.choch

\* a sweep reported from the wick of the forming bar
C27_SweepFromFormingBar ==
    /\ FormingDone
    /\ fnOut[1].sweep_above
    /\ ~SweepExternal1H(ClosedBars(fnIn), Some(130), "ABOVE")
====
